---- MODULE Spec2Model ----
(***************************************************************************)
(* Model of the Aster MCP tool core: src/mcp/tools.js (ToolsAPI),          *)
(* src/mcp/utils.js (validation, key resolution, request client),          *)
(* src/mcp/tokens-config.js (token registry) and deposit-contracts.js      *)
(* (src/unnamed/part_000).                                                 *)
(*                                                                         *)
(* Text that the code inspects character by character (amounts, symbols,   *)
(* network names) is a sequence of one-character strings, so parseFloat,   *)
(* parseUnits, toUpperCase and the regular expressions are computed, not   *)
(* assumed.  Text the code only passes around (keys, addresses, error      *)
(* messages) is a TLA+ string.                                             *)
(***************************************************************************)
EXTENDS Integers, Sequences, FiniteSets, TLC

VARIABLES
    inst,      \* ToolsAPI instance fields set by the constructor
    env,       \* process.env: wallet key / mnemonic / RPC URL of the networks
    top,       \* the public operation invoked by the caller, "none" before
    sb,        \* frame of swapAndBridge
    dep,       \* frame of deposit (and _depositSolana)
    mb,        \* frame of marketBuy
    wd,        \* frame of withdraw
    fee,       \* frame of getWithdrawFee
    events,    \* history: every external call completed, in order
    result,    \* what the public operation returned to its caller
    calls,     \* frames of invocations that overlap in time, <<>> when none do
    world      \* what invocations share outside the process: chain and clock

vars == <<inst, env, top, sb, dep, mb, wd, fee, events, result, calls, world>>

----------------------------------------------------------------------------
(* Text helpers                                                            *)

LowerLetters == <<"a", "b", "c", "d", "e", "f", "g", "h", "i", "j", "k", "l", "m",
                  "n", "o", "p", "q", "r", "s", "t", "u", "v", "w", "x", "y", "z">>
UpperLetters == <<"A", "B", "C", "D", "E", "F", "G", "H", "I", "J", "K", "L", "M",
                  "N", "O", "P", "Q", "R", "S", "T", "U", "V", "W", "X", "Y", "Z">>
DigitChars == <<"0", "1", "2", "3", "4", "5", "6", "7", "8", "9">>

Range(s) == {s[i] : i \in DOMAIN s}

\* String.prototype.toUpperCase on the characters the model uses
toUpperCase(s) ==
    [i \in 1..Len(s) |->
        IF \E k \in 1..26 : LowerLetters[k] = s[i]
        THEN UpperLetters[CHOOSE k \in 1..26 : LowerLetters[k] = s[i]]
        ELSE s[i]]

\* String.prototype.toLowerCase
toLowerCase(s) ==
    [i \in 1..Len(s) |->
        IF \E k \in 1..26 : UpperLetters[k] = s[i]
        THEN LowerLetters[CHOOSE k \in 1..26 : UpperLetters[k] = s[i]]
        ELSE s[i]]

\* String.prototype.endsWith
endsWith(s, suffix) ==
    /\ Len(suffix) <= Len(s)
    /\ SubSeq(s, Len(s) - Len(suffix) + 1, Len(s)) = suffix

IsDigit(c) == c \in Range(DigitChars)
DigitVal(c) == (CHOOSE k \in 1..10 : DigitChars[k] = c) - 1

\* length of the longest prefix of s made of decimal digits
RECURSIVE DigitPrefixLen(_)
DigitPrefixLen(s) ==
    IF Len(s) > 0 /\ IsDigit(s[1]) THEN 1 + DigitPrefixLen(Tail(s)) ELSE 0

\* value of a sequence of decimal digits (0 for the empty sequence)
RECURSIVE NatOfDigits(_)
NatOfDigits(s) ==
    IF Len(s) = 0 THEN 0
    ELSE 10 * NatOfDigits(SubSeq(s, 1, Len(s) - 1)) + DigitVal(s[Len(s)])

RECURSIVE Pow10(_)
Pow10(n) == IF n = 0 THEN 1 ELSE 10 * Pow10(n - 1)

----------------------------------------------------------------------------
(* Numbers.  A JavaScript number produced by parseFloat is NaN, an         *)
(* infinity, or the exact decimal (-1)^neg * mant / 10^scale.              *)

NaN == [kind |-> "NaN"]

\* parseFloat(string): skips leading blanks, reads an optional sign, then
\* "Infinity" or the longest decimal literal, and ignores what follows.
\* (No text of the model holds an exponent part.)
RECURSIVE TrimStart(_)
TrimStart(s) == IF Len(s) > 0 /\ s[1] = " " THEN TrimStart(Tail(s)) ELSE s

parseFloat(str) ==
    LET s       == TrimStart(str)
        signed  == Len(s) > 0 /\ s[1] \in {"-", "+"}
        neg     == Len(s) > 0 /\ s[1] = "-"
        body    == IF signed THEN Tail(s) ELSE s
        isInf   == Len(body) >= 8
                   /\ SubSeq(body, 1, 8) = <<"I", "n", "f", "i", "n", "i", "t", "y">>
        nInt    == DigitPrefixLen(body)
        rest    == SubSeq(body, nInt + 1, Len(body))
        hasDot  == Len(rest) > 0 /\ rest[1] = "."
        nFrac   == IF hasDot THEN DigitPrefixLen(Tail(rest)) ELSE 0
        digits  == SubSeq(body, 1, nInt) \o SubSeq(rest, 2, nFrac + 1)
    IN  IF isInf THEN [kind |-> "Infinity", neg |-> neg]
        ELSE IF nInt + nFrac = 0 THEN NaN
        ELSE [kind |-> "finite", neg |-> neg,
              mant |-> NatOfDigits(digits), scale |-> nFrac]

isNaN(x) == x.kind = "NaN"

\* x <= 0 and x < 1 on JavaScript numbers (false for NaN)
LeqZero(x) ==
    CASE x.kind = "NaN" -> FALSE
      [] x.kind = "Infinity" -> x.neg
      [] OTHER -> x.neg \/ x.mant = 0

LessThanOne(x) ==
    CASE x.kind = "NaN" -> FALSE
      [] x.kind = "Infinity" -> x.neg
      [] OTHER -> x.neg \/ x.mant < Pow10(x.scale)

\* the text is a plain decimal literal: digits, at most one point, no sign,
\* nothing else, and it denotes a number greater than 0
IsFinitePositiveDecimal(s) ==
    LET nInt  == DigitPrefixLen(s)
        rest  == SubSeq(s, nInt + 1, Len(s))
        nFrac == IF Len(rest) > 0 /\ rest[1] = "." THEN DigitPrefixLen(Tail(rest)) ELSE 0
        used  == nInt + (IF Len(rest) > 0 /\ rest[1] = "." THEN 1 + nFrac ELSE 0)
    IN  /\ nInt + nFrac > 0
        /\ used = Len(s)
        /\ NatOfDigits(SubSeq(s, 1, nInt) \o SubSeq(rest, 2, nFrac + 1)) > 0

----------------------------------------------------------------------------
(* utils.js: validation                                                    *)

\* validateAmount that throws on numAmount < 0 instead of numAmount <= 0
validateAmount_negativeOnly(amount) ==
    LET numAmount == parseFloat(amount)
    IN  ~(isNaN(numAmount) \/ (LeqZero(numAmount) /\ numAmount.neg))

\* validateAmount: TRUE when it returns, FALSE when it throws
validateAmount(amount) ==
    LET numAmount == parseFloat(amount)
    IN  ~(isNaN(numAmount) \/ LeqZero(numAmount))

AllNetworks == {<<"e", "t", "h", "e", "r", "e", "u", "m">>,
                <<"a", "r", "b", "i", "t", "r", "u", "m">>,
                <<"b", "n", "b">>,
                <<"s", "o", "l", "a", "n", "a">>}

EvmNetworks == {<<"e", "t", "h", "e", "r", "e", "u", "m">>,
                <<"a", "r", "b", "i", "t", "r", "u", "m">>,
                <<"b", "n", "b">>}

\* validateNetwork(network, allowedNetworks): TRUE when it returns
validateNetwork(network, allowedNetworks) ==
    LET networkLower == IF Len(network) > 0 THEN toLowerCase(network) ELSE <<>>
    IN  networkLower \in allowedNetworks

QuoteAssets == {<<"U", "S", "D", "T">>, <<"U", "S", "D", "C">>, <<"B", "T", "C">>,
                <<"E", "T", "H">>, <<"B", "N", "B">>, <<"S", "O", "L">>,
                <<"B", "U", "S", "D">>}

\* validateTradingSymbol: TRUE when it returns, FALSE when it throws
validateTradingSymbol(symbol) ==
    LET upperSymbol == toUpperCase(symbol)
    IN  /\ Len(symbol) > 0
        /\ Len(upperSymbol) >= 6 /\ Len(upperSymbol) <= 12
        /\ \A i \in 1..Len(upperSymbol) : upperSymbol[i] \in Range(UpperLetters)
        /\ \E quote \in QuoteAssets : endsWith(upperSymbol, quote)

----------------------------------------------------------------------------
(* tokens-config.js: the token registry                                    *)

Null == [null |-> TRUE]

\* the TOKENS table: for each network its entries, `key` being the property
\* name under which the descriptor is stored
TOKENS(network) ==
    CASE network = <<"e", "t", "h", "e", "r", "e", "u", "m">> ->
      {
        [key |-> <<"E", "T", "H">>, symbol |-> <<"E", "T", "H">>, decimals |-> 18, type |-> "native"],
        [key |-> <<"U", "S", "D", "T">>, symbol |-> <<"U", "S", "D", "T">>, address |-> "0xdAC17F958D2ee523a2206206994597C13D831ec7", decimals |-> 6, type |-> "erc20"],
        [key |-> <<"U", "S", "D", "1">>, symbol |-> <<"U", "S", "D", "1">>, address |-> "0x8d0d000ee44948fc98c9b98a4fa4921476f08b0d", decimals |-> 18, type |-> "erc20"],
        [key |-> <<"U", "S", "D", "C">>, symbol |-> <<"U", "S", "D", "C">>, address |-> "0xA0b86991c6218b36c1d19D4a2e9Eb0cE3606eB48", decimals |-> 6, type |-> "erc20"],
        [key |-> <<"B", "T", "C">>, symbol |-> <<"W", "B", "T", "C">>, address |-> "0x2260FAC5E5542a773Aa44fBCfeDf7C193bc2C599", decimals |-> 8, type |-> "erc20"]
      }
      [] network = <<"a", "r", "b", "i", "t", "r", "u", "m">> ->
      {
        [key |-> <<"E", "T", "H">>, symbol |-> <<"E", "T", "H">>, decimals |-> 18, type |-> "native"],
        [key |-> <<"U", "S", "D", "T">>, symbol |-> <<"U", "S", "D", "T">>, address |-> "0xFd086bC7CD5C481DCC9C85ebE478A1C0b69FCbb9", decimals |-> 6, type |-> "erc20"],
        [key |-> <<"U", "S", "D", "C">>, symbol |-> <<"U", "S", "D", "C">>, address |-> "0xaf88d065e77c8cC2239327C5EDb3A432268e5831", decimals |-> 6, type |-> "erc20"]
      }
      [] network = <<"b", "n", "b">> ->
      {
        [key |-> <<"B", "N", "B">>, symbol |-> <<"B", "N", "B">>, decimals |-> 18, type |-> "native"],
        [key |-> <<"U", "S", "D", "T">>, symbol |-> <<"U", "S", "D", "T">>, address |-> "0x55d398326f99059fF775485246999027B3197955", decimals |-> 18, type |-> "erc20"],
        [key |-> <<"A", "S", "T", "E", "R">>, symbol |-> <<"A", "S", "T", "E", "R">>, address |-> "0x000Ae314E2A2172a039B26378814C252734f556A", decimals |-> 18, type |-> "erc20"],
        [key |-> <<"U", "S", "D", "1">>, symbol |-> <<"U", "S", "D", "1">>, address |-> "0x8d0D000Ee44948FC98c9B98A4FA4921476f08B0d", decimals |-> 18, type |-> "erc20"],
        [key |-> <<"A", "P", "X">>, symbol |-> <<"A", "P", "X">>, address |-> "0x78F5d389F5CDCcFc41594aBaB4B0Ed02F31398b3", decimals |-> 18, type |-> "erc20"],
        [key |-> <<"E", "T", "H">>, symbol |-> <<"w", "B", "E", "T", "H">>, address |-> "0xa2E3356610840701BDf5611a53974510Ae27E2e1", decimals |-> 18, type |-> "erc20"],
        [key |-> <<"B", "T", "C">>, symbol |-> <<"B", "T", "C", "B">>, address |-> "0x7130d2A12B9BCbFAe4f2634d864A1Ee1Ce3Ead9c", decimals |-> 18, type |-> "erc20"]
      }
      [] network = <<"s", "o", "l", "a", "n", "a">> ->
      {
        [key |-> <<"S", "O", "L">>, symbol |-> <<"S", "O", "L">>, decimals |-> 9, type |-> "native"],
        [key |-> <<"U", "S", "D", "T">>, symbol |-> <<"U", "S", "D", "T">>, address |-> "Es9vMFrzaCERmJfrF4H2FYD4KCoNkY11McCe8BenwNYB", decimals |-> 6, type |-> "spl"],
        [key |-> <<"U", "S", "D", "C">>, symbol |-> <<"U", "S", "D", "C">>, address |-> "EPjFWdd5AufqSSqeM2qN1xzybapC8G4wEGGkZwyTDt1v", decimals |-> 6, type |-> "spl"],
        [key |-> <<"J", "L", "P">>, symbol |-> <<"J", "L", "P">>, address |-> "27G8MtK7VtTcCHkpASjSDdkWWYfoqT6ggEuKidVJidD4", decimals |-> 6, type |-> "spl"],
        [key |-> <<"U", "S", "D", "1">>, symbol |-> <<"U", "S", "D", "1">>, address |-> "USD1ttGY1N17NEEHLmELoaybftRBUSErhqYiQzvEmuB", decimals |-> 9, type |-> "spl"],
        [key |-> <<"B", "T", "C">>, symbol |-> <<"B", "T", "C">>, address |-> "9n4nbM75f5Ui33ZbPYXn59EwSgE8CGsHtAeTH5YFeJ9E", decimals |-> 6, type |-> "spl"]
      }
      [] OTHER -> {}

\* getTokenConfig that looks the symbol up as it is spelled
getTokenConfig_exact(symbol, network) ==
    LET networkTokens == TOKENS(toLowerCase(network))
        hits == {t \in networkTokens : t.key = symbol}
    IN  IF hits = {} THEN Null
        ELSE LET token == CHOOSE t \in hits : TRUE
             IN  [f \in (DOMAIN token \ {"key"}) \cup {"network"} |->
                     IF f = "network" THEN toLowerCase(network) ELSE token[f]]

\* getTokenConfig(symbol, network): the descriptor with `network` added, or Null
getTokenConfig(symbol, network) ==
    LET networkTokens == TOKENS(toLowerCase(network))
        hits == {t \in networkTokens : t.key = toUpperCase(symbol)}
    IN  IF networkTokens = {} THEN Null
        ELSE IF hits = {} THEN Null
        ELSE LET token == CHOOSE t \in hits : TRUE
             IN  [f \in (DOMAIN token \ {"key"}) \cup {"network"} |->
                     IF f = "network" THEN toLowerCase(network) ELSE token[f]]

----------------------------------------------------------------------------
(* deposit-contracts.js                                                    *)

DEPOSIT_CONTRACTS(network) ==
    CASE network = <<"e", "t", "h", "e", "r", "e", "u", "m">> ->
            [address |-> "0x604dd02d620633ae427888d41bfd15e38483736e", chainId |-> 1]
      [] network = <<"a", "r", "b", "i", "t", "r", "u", "m">> ->
            [address |-> "0x9E36CB86a159d479cEd94Fa05036f235Ac40E1d5", chainId |-> 42161]
      [] network = <<"b", "n", "b">> ->
            [address |-> "0x128463a60784c4d3f46c23af3f65ed859ba87974", chainId |-> 56]
      [] network = <<"s", "o", "l", "a", "n", "a">> ->
            [address |-> "EhUtRgu9iEbZXXRpEvDj6n1wnQRjMi2SERDo3c6bmN2c"]
      [] OTHER -> Null

\* getDepositContract(network): [ok, contract]; ok = FALSE when it throws
getDepositContract(network) ==
    LET contract == DEPOSIT_CONTRACTS(toLowerCase(network))
    IN  IF contract = Null THEN [ok |-> FALSE, contract |-> Null]
        ELSE IF contract.address \in {"0x0000000000000000000000000000000000000000",
                                      "11111111111111111111111111111111"}
        THEN [ok |-> FALSE, contract |-> Null]
        ELSE [ok |-> TRUE, contract |-> contract]

----------------------------------------------------------------------------
(* utils.js: wallet helpers.  Keys, mnemonics and URLs are opaque strings; *)
(* "" stands for every falsy value (null, undefined, empty string).        *)

\* ethers.Wallet.fromPhrase(mnemonic): the phrases it accepts and the key it derives
ValidMnemonics == {"good phrase"}
KeyOfMnemonic(mnemonic) == "0xkey-of-" \o mnemonic

\* getNetworkWalletEnv that answers from the configuration an earlier call
\* has read
getNetworkWalletEnv_cached(e, network) ==
    IF events # <<>> /\ events[1].io = "previous"
    THEN events[1].detail.env[toUpperCase(network)]
    ELSE e[toUpperCase(network)]

\* getNetworkWalletEnv(network)
getNetworkWalletEnv(e, network) == e[toUpperCase(network)]

\* getNetworkRpcUrl(network): [ok, rpcUrl]
getNetworkRpcUrl(e, network) ==
    LET rpcUrl == e[toUpperCase(network)].rpcUrl
    IN  [ok |-> rpcUrl # "", rpcUrl |-> rpcUrl,
         error |-> IF rpcUrl # "" THEN "" ELSE "RPC URL not configured"]

\* getWalletPrivateKey that prefers the configured key to the explicit one
getWalletPrivateKey_configFirst(userPrivateKey, configPrivateKey, configMnemonic) ==
    IF configPrivateKey # "" THEN
        [ok |-> TRUE, key |-> configPrivateKey, error |-> "", derivations |-> 0]
    ELSE IF userPrivateKey # "" THEN
        [ok |-> TRUE, key |-> userPrivateKey, error |-> "", derivations |-> 0]
    ELSE IF configMnemonic # "" THEN
        IF configMnemonic \in ValidMnemonics
        THEN [ok |-> TRUE, key |-> KeyOfMnemonic(configMnemonic), error |-> "",
              derivations |-> 1]
        ELSE [ok |-> FALSE, key |-> "",
              error |-> "Failed to derive private key from mnemonic", derivations |-> 1]
    ELSE [ok |-> FALSE, key |-> "", error |-> "No wallet credentials available",
          derivations |-> 0]

\* getWalletPrivateKey that swallows a derivation failure and goes on to
\* the no-credentials error
getWalletPrivateKey_fallThrough(userPrivateKey, configPrivateKey, configMnemonic) ==
    IF userPrivateKey # "" THEN
        [ok |-> TRUE, key |-> userPrivateKey, error |-> "", derivations |-> 0]
    ELSE IF configPrivateKey # "" THEN
        [ok |-> TRUE, key |-> configPrivateKey, error |-> "", derivations |-> 0]
    ELSE IF configMnemonic \in ValidMnemonics THEN
        [ok |-> TRUE, key |-> KeyOfMnemonic(configMnemonic), error |-> "", derivations |-> 1]
    ELSE [ok |-> FALSE, key |-> "", error |-> "No wallet credentials available",
          derivations |-> IF configMnemonic # "" THEN 1 ELSE 0]

\* getWalletPrivateKey(userPrivateKey, configPrivateKey, configMnemonic):
\* [ok, key, error, derivations]
getWalletPrivateKey(userPrivateKey, configPrivateKey, configMnemonic) ==
    IF userPrivateKey # "" THEN
        [ok |-> TRUE, key |-> userPrivateKey, error |-> "", derivations |-> 0]
    ELSE IF configPrivateKey # "" THEN
        [ok |-> TRUE, key |-> configPrivateKey, error |-> "", derivations |-> 0]
    ELSE IF configMnemonic # "" THEN
        IF configMnemonic \in ValidMnemonics
        THEN [ok |-> TRUE, key |-> KeyOfMnemonic(configMnemonic), error |-> "",
              derivations |-> 1]
        ELSE [ok |-> FALSE, key |-> "",
              error |-> "Failed to derive private key from mnemonic", derivations |-> 1]
    ELSE [ok |-> FALSE, key |-> "", error |-> "No wallet credentials available",
          derivations |-> 0]

\* getNetworkPrivateKey(network, userPrivateKey)
getNetworkPrivateKey(e, network, userPrivateKey) ==
    LET networkCreds == getNetworkWalletEnv(e, network)
    IN  getWalletPrivateKey(userPrivateKey, networkCreds.privateKey, networkCreds.mnemonic)

\* handleError(error)
handleError(message) == [success |-> FALSE, isError |-> TRUE, error |-> [text |-> message]]

----------------------------------------------------------------------------
(* ethers / web3 library calls the operations rely on                      *)

\* keys new ethers.Wallet(key) accepts, and the address of each
EvmKeys == {"0xenvkey", "0xuserkey", "0xnewkey", KeyOfMnemonic("good phrase")}
WalletAddress(key) ==
    CASE key = "0xenvkey"  -> <<"0", "x", "E", "1">>
      [] key = "0xuserkey" -> <<"0", "x", "E", "2">>
      [] key = "0xnewkey"  -> <<"0", "x", "E", "4">>
      [] OTHER             -> <<"0", "x", "E", "3">>

\* keys bs58.decode + Keypair.fromSecretKey accept
SolanaKeys == {"solenvkey", "solnewkey"}

\* texts ethers.getAddress accepts once lower-cased; the short texts stand
\* for 0x followed by 40 hexadecimal digits
AddressTexts == {<<"0", "x", "e", "1">>, <<"0", "x", "e", "2">>, <<"0", "x", "e", "3">>,
                 <<"0", "x", "e", "4">>,
                 <<"0", "x", "a", "1">>, <<"0", "x", "c", "7">>}

\* the checksummed form of a lower-case address: the mixed-case spelling of
\* EIP-55 is stood for by upper-case hexadecimal letters after the 0x
Checksummed(lower) == SubSeq(lower, 1, 2) \o toUpperCase(SubSeq(lower, 3, Len(lower)))

\* getAddress that accepts every text and returns it as it is
getAddress_unchecked(text) == [ok |-> TRUE, address |-> text]

\* ethers.getAddress(text.toLowerCase()): [ok, address]
getAddress(text) ==
    LET lower == toLowerCase(text)
    IN  [ok |-> lower \in AddressTexts, address |-> Checksummed(lower)]

\* ethers.parseUnits(value, decimals): the text must match
\* ^(-?)([0-9]*)\.?([0-9]*)$ with at least one digit, and fraction digits
\* beyond `decimals` must all be zero; otherwise it throws
parseUnitsAccepts(value, decimals) ==
    LET neg    == Len(value) > 0 /\ value[1] = "-"
        body   == IF neg THEN Tail(value) ELSE value
        nInt   == DigitPrefixLen(body)
        rest   == SubSeq(body, nInt + 1, Len(body))
        frac   == IF Len(rest) > 0 /\ rest[1] = "." THEN Tail(rest) ELSE rest
        nFrac  == DigitPrefixLen(frac)
    IN  /\ nFrac = Len(frac)
        /\ nInt + nFrac > 0
        /\ \A i \in 1..nFrac : i > decimals => frac[i] = "0"

\* the base-unit integer parseUnits returns for a text it accepts
parseUnits(value, decimals) ==
    LET neg    == Len(value) > 0 /\ value[1] = "-"
        body   == IF neg THEN Tail(value) ELSE value
        nInt   == DigitPrefixLen(body)
        rest   == SubSeq(body, nInt + 1, Len(body))
        frac   == IF Len(rest) > 0 /\ rest[1] = "." THEN Tail(rest) ELSE rest
        kept   == SubSeq(frac, 1, IF Len(frac) < decimals THEN Len(frac) ELSE decimals)
        abs    == NatOfDigits(SubSeq(body, 1, nInt)) * Pow10(decimals)
                  + NatOfDigits(kept) * Pow10(decimals - Len(kept))
    IN  IF neg THEN 0 - abs ELSE abs

----------------------------------------------------------------------------
(* JavaScript values of the exchange's JSON bodies                         *)

Undefined == [t |-> "undefined"]
JsNull    == [t |-> "null"]
Num(n)    == [t |-> "number", v |-> n]
Str(text) == [t |-> "string", v |-> text]

\* truthiness, as `a || b` tests it
Truthy(v) ==
    CASE v.t = "undefined" -> FALSE
      [] v.t = "null"      -> FALSE
      [] v.t = "number"    -> v.v # 0
      [] OTHER             -> Len(v.v) > 0

\* String(v) for the values a fee can be
RECURSIVE DigitsOf(_)
DigitsOf(n) == IF n < 10 THEN <<DigitChars[n + 1]>>
               ELSE DigitsOf(n \div 10) \o <<DigitChars[(n % 10) + 1]>>
String(v) ==
    CASE v.t = "number"    -> DigitsOf(v.v)
      [] v.t = "undefined" -> <<"u", "n", "d", "e", "f", "i", "n", "e", "d">>
      [] v.t = "null"      -> <<"n", "u", "l", "l">>
      [] OTHER             -> v.v

\* error values: a message text, or an error object of the request client
Text(message) == [text |-> message]

\* `${error}` in a template literal: a text stays, an object prints as
\* [object Object]
Interpolate(error) == IF "text" \in DOMAIN error THEN error.text ELSE "[object Object]"

----------------------------------------------------------------------------
(* The environment and the inputs of the model                             *)

WalletEnv(privateKey, solanaKey, mnemonic, rpcUrl) ==
    [n \in {toUpperCase(m) : m \in AllNetworks} |->
        [privateKey |-> IF n = <<"S", "O", "L", "A", "N", "A">> THEN solanaKey ELSE privateKey,
         mnemonic |-> mnemonic, rpcUrl |-> rpcUrl]]

\* ToolsAPI constructor: the instance fields read from the process environment
ToolsAPI(asterApiKey, asterApiSecret) ==
    [asterApiKey |-> asterApiKey, asterApiSecret |-> asterApiSecret,
     asterBaseUrl |-> "https://sapi.asterdex.com", recvWindow |-> 5000,
     debugFull |-> FALSE]

\* the configurations the model starts from
Configs ==
    { [inst |-> ToolsAPI("apikey", "apisecret"),
       env  |-> WalletEnv("0xenvkey", "solenvkey", "", "https://rpc")],
      [inst |-> ToolsAPI("", ""),
       env  |-> WalletEnv("0xenvkey", "solenvkey", "", "https://rpc")],
      [inst |-> ToolsAPI("apikey", "apisecret"),
       env  |-> WalletEnv("", "", "good phrase", "https://rpc")],
      [inst |-> ToolsAPI("apikey", "apisecret"),
       env  |-> WalletEnv("", "", "bad phrase", "https://rpc")],
      [inst |-> ToolsAPI("apikey", "apisecret"),
       env  |-> WalletEnv("", "", "", "https://rpc")],
      [inst |-> ToolsAPI("apikey", "apisecret"),
       env  |-> WalletEnv("0xenvkey", "solenvkey", "", "")] }

\* amounts a caller passes: the five of the specification's validation
\* property, a numeric prefix followed by letters, a non-finite value, and
\* an amount below 1
AmountInputs == {<<"0">>, <<"-", "5">>, <<"a", "b", "c">>, <<"1", ".", "5">>,
                 <<"1", "0", "0">>, <<"1", "a", "b", "c">>,
                 <<"I", "n", "f", "i", "n", "i", "t", "y">>, <<"0", ".", "5">>}

NetworkInputs == {<<"e", "t", "h", "e", "r", "e", "u", "m">>, <<"B", "N", "B">>,
                  <<"s", "o", "l", "a", "n", "a">>, <<"p", "o", "l", "y", "g", "o", "n">>}

\* token references: registry symbols, a contract address, a malformed text
TokenInputs == {<<"U", "S", "D", "T">>, <<"e", "t", "h">>, <<"S", "O", "L">>,
                <<"0", "x", "C", "7">>, <<"U", "S", "-", "D", "T">>}

\* tokens a withdrawal names: a stablecoin in lower case, another token, a
\* malformed text
WithdrawTokens == {<<"u", "s", "d", "t">>, <<"A", "S", "T", "E", "R">>,
                   <<"U", "S", "-", "D", "T">>}

UserKeyInputs == {"", "0xuserkey"}

AddressInputs == {<<>>, <<"0", "x", "A", "1">>, <<"0", "x", "a", "1">>,
                  <<"0", "x", "1", "2", "3">>}

SymbolInputs == {<<"a", "s", "t", "e", "r", "u", "s", "d", "t">>,
                 <<"A", "S", "T", "E", "R", "U", "S", "D", "1">>,
                 <<"B", "T", "C">>}

\* what the chain returns for decimals() and allowance()
OnChainDecimals == {2, 6}
AllowanceValues == {0, 150, 1500000, 2000000000}

\* executed quantities the exchange reports for a filled market order
ExecutedQtys == {<<"0">>, <<"0", ".", "5">>, <<"2">>}

\* bodies of the fee-estimate endpoint
FeeBodies ==
    { [gasCost |-> Str(<<"0", ".", "1">>), fee |-> Undefined],
      [gasCost |-> Undefined, fee |-> Undefined],
      [gasCost |-> JsNull, fee |-> JsNull],
      [gasCost |-> Num(0), fee |-> Str(<<"0", ".", "2">>)],
      [gasCost |-> Num(0), fee |-> Undefined],
      [gasCost |-> Num(0), fee |-> Num(0)] }

Idle == [pc |-> "idle"]
Returned(value) == [pc |-> "returned", ret |-> value]

\* one completed external call (or local signature) in the history
Event(io, call, ok, detail) == [io |-> io, call |-> call, ok |-> ok, detail |-> detail]

----------------------------------------------------------------------------
(* utils.js: the request client, as the operations see it                  *)

\* what the transport can answer: a body, an HTTP error carrying the
\* provider's code and message, or no answer at all
HttpOutcomes(bodies) ==
    {[kind |-> "ok", data |-> d] : d \in bodies}
    \cup {[kind |-> "apiError", code |-> 1121, msg |-> "Invalid symbol.", status |-> 400],
          [kind |-> "network"]}

\* credentialsMissing that tests the API key only
credentialsMissing_keyOnly(signed, apiKey, apiSecret) == signed /\ apiKey = ""

\* signed && (!apiKey || !apiSecret)
credentialsMissing(signed, apiKey, apiSecret) == signed /\ (apiKey = "" \/ apiSecret = "")

\* the catch block for an error thrown before axios answered: it has no
\* error.response
thrownResult(message) ==
    [success |-> FALSE, error |-> [message |-> message, type |-> "NetworkError"]]

\* the result for what axios answered: the body, the catch branch with
\* error.response (code 0 and msg "" stand for a body without them), or
\* the catch branch without it
requestResult(outcome) ==
    CASE outcome.kind = "ok" -> [success |-> TRUE, data |-> outcome.data]
      [] outcome.kind = "apiError" ->
            [success |-> FALSE,
             error |-> [code |-> IF outcome.code # 0 THEN outcome.code ELSE outcome.status,
                        message |-> IF outcome.msg # "" THEN outcome.msg
                                    ELSE "Request failed with status code",
                        httpStatus |-> outcome.status]]
      [] OTHER -> thrownResult("Network Error")

\* what Date.now() can return, in milliseconds
ClockValues == {1700001, 1700002}

\* keepOrInject that always takes the fresh value
keepOrInject_always(supplied, fresh) == fresh

\* if (!requestParams[k]) requestParams[k] = fresh: the value the request
\* carries for k
keepOrInject(supplied, fresh) == IF Truthy(supplied) THEN supplied ELSE fresh

\* the parameters as the operations pass them (a record), with the
\* timestamp and recvWindow the caller supplied kept or replaced as the
\* client does for a signed request; the fields the client adds on its own
\* are left out of the record
stamped(params, signed, now, recvWindow) ==
    LET withTime == IF signed /\ "timestamp" \in DOMAIN params
                    THEN [params EXCEPT !.timestamp = keepOrInject(@, Num(now))]
                    ELSE params
    IN  IF signed /\ "recvWindow" \in DOMAIN params
        THEN [withTime EXCEPT !.recvWindow = keepOrInject(@, Num(recvWindow))]
        ELSE withTime

\* makeApiRequest(options) with Date.now() = now: [response, sent]; sent
\* holds the HTTP call when one was issued.  Missing credentials of a signed
\* request throw inside the try block, before axios is called, and end in
\* the catch branch that has no error.response.
makeApiRequest(i, endpoint, method, params, signed, outcome, now) ==
    IF credentialsMissing(signed, i.asterApiKey, i.asterApiSecret) THEN
        [response |-> thrownResult("API credentials not configured"),
         sent |-> <<>>]
    ELSE
        [response |-> requestResult(outcome),
         sent |-> <<Event("http", endpoint, outcome.kind = "ok",
                          [method |-> method,
                           params |-> stamped(params, signed, now, i.recvWindow),
                           signed |-> signed, answer |-> outcome])>>]

----------------------------------------------------------------------------
(* utils.js: the request client in detail.  A parameter object is the      *)
(* sequence of its own properties, [key, value], in insertion order.       *)

TimestampKey  == <<"t", "i", "m", "e", "s", "t", "a", "m", "p">>
RecvWindowKey == <<"r", "e", "c", "v", "W", "i", "n", "d", "o", "w">>

Has(obj, key) == \E i \in DOMAIN obj : obj[i].key = key

\* obj[key]
Get(obj, key) ==
    IF Has(obj, key) THEN (CHOOSE p \in Range(obj) : p.key = key).value ELSE Undefined

\* obj[key] = value: an own property keeps its place, a new one goes last
Put(obj, key, value) ==
    IF Has(obj, key)
    THEN [i \in DOMAIN obj |-> IF obj[i].key = key THEN [key |-> key, value |-> value]
                               ELSE obj[i]]
    ELSE Append(obj, [key |-> key, value |-> value])

\* Object.keys(obj)
ObjectKeys(obj) == [i \in DOMAIN obj |-> obj[i].key]

\* the characters of the model in the order of their UTF-16 code units
CodeUnits == <<" ", "&", "-", ".">> \o DigitChars \o <<"=">> \o UpperLetters
             \o <<"_">> \o LowerLetters

CharCode(c) == CHOOSE i \in DOMAIN CodeUnits : CodeUnits[i] = c

\* a < b as Array.prototype.sort compares strings by default
RECURSIVE KeyLess(_, _)
KeyLess(a, b) ==
    IF a = <<>> THEN b # <<>>
    ELSE IF b = <<>> THEN FALSE
    ELSE IF a[1] = b[1] THEN KeyLess(Tail(a), Tail(b))
    ELSE CharCode(a[1]) < CharCode(b[1])

\* keys.sort() of distinct keys
RECURSIVE sort(_)
sort(keys) ==
    IF keys = <<>> THEN <<>>
    ELSE LET m    == CHOOSE i \in DOMAIN keys :
                         \A j \in DOMAIN keys : j # i => KeyLess(keys[i], keys[j])
             rest == [j \in 1..(Len(keys) - 1) |-> IF j < m THEN keys[j] ELSE keys[j + 1]]
         IN  <<keys[m]>> \o sort(rest)

\* encodeURIComponent: letters, digits and - _ . stay, the rest is escaped
RECURSIVE encodeURIComponent(_)
encodeURIComponent(text) ==
    IF text = <<>> THEN <<>>
    ELSE (CASE text[1] = "&" -> <<"%", "2", "6">>
            [] text[1] = "=" -> <<"%", "3", "D">>
            [] text[1] = " " -> <<"%", "2", "0">>
            [] OTHER         -> <<text[1]>>)
         \o encodeURIComponent(Tail(text))

RECURSIVE join(_, _)
join(parts, separator) ==
    IF parts = <<>> THEN <<>>
    ELSE IF Len(parts) = 1 THEN parts[1]
    ELSE parts[1] \o separator \o join(Tail(parts), separator)

\* buildQueryString that keeps the keys in insertion order
buildQueryString_unsorted(params) ==
    LET keys == ObjectKeys(params)
    IN  join([i \in DOMAIN keys |->
                 encodeURIComponent(keys[i]) \o <<"=">>
                 \o encodeURIComponent(String(Get(params, keys[i])))], <<"&">>)

\* buildQueryString(params)
buildQueryString(params) ==
    LET keys == sort(ObjectKeys(params))
    IN  join([i \in DOMAIN keys |->
                 encodeURIComponent(keys[i]) \o <<"=">>
                 \o encodeURIComponent(String(Get(params, keys[i])))], <<"&">>)

\* generateHmacSignature(queryString, secret): the digest is the term of
\* the text and the secret it was computed from
generateHmacSignature(queryString, secret) == [hmac |-> queryString, secret |-> secret]

NoSignature == [none |-> TRUE]

\* the clone of params with timestamp and recvWindow added for a signed request
requestParams(params, signed, now, recvWindow) ==
    IF ~signed THEN params
    ELSE LET withTime == Put(params, TimestampKey,
                            keepOrInject(Get(params, TimestampKey), Num(now)))
         IN  Put(withTime, RecvWindowKey,
                 keepOrInject(Get(withTime, RecvWindowKey), Num(recvWindow)))

\* The objects of one makeApiRequest call: `caller` is the object passed as
\* options.params, `own` the object bound to requestParams, `same` tells
\* whether the two names are bound to one object.

\* const requestParams = params: no copy is made
cloneParams_aliased(params) == [caller |-> params, own |-> params, same |-> TRUE]

\* const requestParams = { ...params }: a new object with the caller's own
\* properties in their order
cloneParams(params) == [caller |-> params, own |-> params, same |-> FALSE]

\* the objects after requestParams.timestamp = ... and
\* requestParams.recvWindow = ...: a write to an object shows under every
\* name bound to it
paramsAfterRequest(objects, signed, now, recvWindow) ==
    LET written == requestParams(objects.own, signed, now, recvWindow)
    IN  [objects EXCEPT !.own = written,
                        !.caller = IF objects.same THEN written ELSE @]

\* config.headers; "" stands for a header that is not set
requestHeaders(method, apiKey) ==
    [ContentType |-> IF method \in {"POST", "PUT"}
                     THEN "application/x-www-form-urlencoded" ELSE "",
     ApiKey |-> apiKey]

Unset == [set |-> FALSE]

\* the query string with the signature appended for a signed request
fullQuery(queryString, signed, signature) ==
    [set |-> TRUE, text |-> queryString,
     signature |-> IF signed THEN signature ELSE NoSignature]

\* placeQuery that puts the query of every method into the URL
placeQuery_alwaysUrl(method, full) ==
    [query |-> IF full.text # <<>> \/ full.signature # NoSignature THEN full ELSE Unset,
     data  |-> Unset]

\* where the query string goes: the URL for GET and DELETE (nothing is
\* appended when it is empty), config.data for POST and PUT
placeQuery(method, full) ==
    [query |-> IF method \in {"GET", "DELETE"}
                  /\ (full.text # <<>> \/ full.signature # NoSignature)
               THEN full ELSE Unset,
     data  |-> IF method \in {"POST", "PUT"} THEN full ELSE Unset]

\* the axios config makeApiRequest builds
requestConfig(i, endpoint, method, params, signed, now) ==
    LET sentParams  == requestParams(params, signed, now, i.recvWindow)
        queryString == buildQueryString(sentParams)
        signature   == IF signed THEN generateHmacSignature(queryString, i.asterApiSecret)
                       ELSE NoSignature
        placed      == placeQuery(method, fullQuery(queryString, signed, signature))
    IN  [method |-> method, url |-> i.asterBaseUrl \o endpoint,
         headers |-> requestHeaders(method, i.asterApiKey),
         query |-> placed.query, data |-> placed.data,
         requestParams |-> sentParams, queryString |-> queryString,
         signature |-> signature]

----------------------------------------------------------------------------
(* tools.js: deposit                                                       *)

\* _depositSolana up to its first network call (getLatestBlockhash)
depositSolana(e, token, amount, privateKey) ==
    LET tokenConfig == getTokenConfig(token, <<"s", "o", "l", "a", "n", "a">>)
        rpc         == getNetworkRpcUrl(e, <<"s", "o", "l", "a", "n", "a">>)
        signingKey  == getNetworkPrivateKey(e, <<"s", "o", "l", "a", "n", "a">>, privateKey)
        amountSOL   == parseFloat(amount)
    IN  IF tokenConfig = Null THEN
            Returned([success |-> FALSE, error |-> Text("Token not supported on Solana")])
        ELSE IF tokenConfig.type # "native" THEN
            Returned([success |-> FALSE, error |-> Text("SPL token deposits not yet implemented")])
        ELSE IF ~rpc.ok THEN Returned(handleError(rpc.error))
        ELSE IF ~signingKey.ok THEN Returned(handleError(signingKey.error))
        ELSE IF signingKey.key \notin SolanaKeys THEN
            Returned(handleError("Non-base58 character"))
        \* BigInt(Math.floor(Infinity * LAMPORTS_PER_SOL)) throws a RangeError
        ELSE IF amountSOL.kind # "finite" THEN
            Returned(handleError("cannot be converted to a BigInt"))
        ELSE [pc |-> "solBlockhash", network |-> <<"s", "o", "l", "a", "n", "a">>,
              token |-> token, amount |-> amount, amountSOL |-> amountSOL,
              signingKey |-> signingKey.key, symbol |-> tokenConfig.symbol]

\* deposit(network, token, amount, privateKey) up to its first await: the
\* frame it is left in, or the result it returned
deposit(e, network, token, amount, privateKey) ==
    IF ~validateNetwork(network, AllNetworks) THEN Returned(handleError("Invalid network"))
    ELSE IF ~validateAmount(amount) THEN
        Returned(handleError("amount must be a positive number"))
    ELSE LET networkLower == toLowerCase(network) IN
    IF networkLower = <<"s", "o", "l", "a", "n", "a">>
    THEN depositSolana(e, token, amount, privateKey)
    ELSE
    LET tokenConfig     == getTokenConfig(token, networkLower)
        isNative        == tokenConfig # Null /\ tokenConfig.type = "native"
        depositContract == getDepositContract(networkLower)
        rpc             == getNetworkRpcUrl(e, networkLower)
        signingKey      == getNetworkPrivateKey(e, networkLower, privateKey)
        normalized      == IF tokenConfig # Null
                           THEN [ok |-> TRUE, address |-> tokenConfig.address]
                           ELSE getAddress(token)
        frame(pc, tokenAddress, symbol) ==
            [pc |-> pc, network |-> network, token |-> token, amount |-> amount,
             signingKey |-> signingKey.key, wallet |-> WalletAddress(signingKey.key),
             depositContract |-> depositContract.contract.address,
             tokenAddress |-> tokenAddress, symbol |-> symbol,
             decimals |-> 0, amountBN |-> 0, approvals |-> 0]
    IN  IF ~depositContract.ok THEN Returned(handleError("Deposit contract not configured"))
        ELSE IF ~rpc.ok THEN Returned(handleError(rpc.error))
        ELSE IF ~signingKey.ok THEN Returned(handleError(signingKey.error))
        ELSE IF signingKey.key \notin EvmKeys THEN Returned(handleError("invalid private key"))
        ELSE IF isNative THEN
            \* ethers.parseEther(amount) is evaluated before depositNative is sent
            IF parseUnitsAccepts(amount, 18)
            THEN frame("depositNative", "", tokenConfig.symbol)
            ELSE Returned(handleError("invalid FixedNumber string value"))
        ELSE IF ~normalized.ok THEN Returned(handleError("invalid address"))
        ELSE frame("decimals", normalized.address, token)


\* the history after an operation's step: the calls it completed, and the
\* operation's return when the step ended it
After(op, frame, io) ==
    events \o io \o
    (IF frame.pc = "returned"
     THEN <<Event("return", op, frame.ret.success, <<>>)>> ELSE <<>>)

Called(op, frame, args) == After(op, frame, <<Event("call", op, TRUE, args)>>)

\* deposit_decimals that scales the amount by the 6 decimals of a stablecoin
\* whatever the token contract answers
deposit_decimals_assumed ==
    /\ dep.pc = "decimals"
    /\ \E ok \in BOOLEAN, decimals \in OnChainDecimals :
        LET io   == <<Event("read", "decimals", ok,
                            [token |-> dep.tokenAddress,
                             value |-> IF ok THEN decimals ELSE 0])>>
            next == IF ~ok THEN Returned(handleError("decimals() failed"))
                    ELSE IF ~parseUnitsAccepts(dep.amount, 6)
                    THEN Returned(handleError("invalid FixedNumber string value"))
                    ELSE [dep EXCEPT !.pc = "allowance", !.decimals = 6,
                                     !.amountBN = parseUnits(dep.amount, 6)]
        IN  /\ dep' = next
            /\ events' = After("deposit", next, io)
    /\ UNCHANGED <<calls, world, inst, env, top, sb, mb, wd, fee, result>>

\* await tokenContract.decimals(), then ethers.parseUnits(amount, decimals)
deposit_decimals ==
    /\ dep.pc = "decimals"
    /\ \E ok \in BOOLEAN, decimals \in OnChainDecimals :
        LET io   == <<Event("read", "decimals", ok,
                            [token |-> dep.tokenAddress,
                             value |-> IF ok THEN decimals ELSE 0])>>
            next == IF ~ok THEN Returned(handleError("decimals() failed"))
                    ELSE IF ~parseUnitsAccepts(dep.amount, decimals)
                    THEN Returned(handleError("invalid FixedNumber string value"))
                    ELSE [dep EXCEPT !.pc = "allowance", !.decimals = decimals,
                                     !.amountBN = parseUnits(dep.amount, decimals)]
        IN  /\ dep' = next
            /\ events' = After("deposit", next, io)
    /\ UNCHANGED <<calls, world, inst, env, top, sb, mb, wd, fee, result>>

\* deposit_allowance that approves unless the allowance exceeds the amount
deposit_allowance_strict ==
    /\ dep.pc = "allowance"
    /\ \E ok \in BOOLEAN, currentAllowance \in AllowanceValues :
        LET io   == <<Event("read", "allowance", ok,
                            [owner |-> dep.wallet, spender |-> dep.depositContract,
                             value |-> currentAllowance, required |-> dep.amountBN])>>
            next == IF ~ok THEN Returned(handleError("allowance() failed"))
                    ELSE IF currentAllowance <= dep.amountBN
                    THEN [dep EXCEPT !.pc = "approve"]
                    ELSE [dep EXCEPT !.pc = "depositTx"]
        IN  /\ dep' = next
            /\ events' = After("deposit", next, io)
    /\ UNCHANGED <<calls, world, inst, env, top, sb, mb, wd, fee, result>>

\* await tokenContract.allowance(wallet.address, depositContract.address)
deposit_allowance ==
    /\ dep.pc = "allowance"
    /\ \E ok \in BOOLEAN, currentAllowance \in AllowanceValues :
        LET io   == <<Event("read", "allowance", ok,
                            [owner |-> dep.wallet, spender |-> dep.depositContract,
                             value |-> currentAllowance, required |-> dep.amountBN])>>
            next == IF ~ok THEN Returned(handleError("allowance() failed"))
                    ELSE IF currentAllowance < dep.amountBN
                    THEN [dep EXCEPT !.pc = "approve"]
                    ELSE [dep EXCEPT !.pc = "depositTx"]
        IN  /\ dep' = next
            /\ events' = After("deposit", next, io)
    /\ UNCHANGED <<calls, world, inst, env, top, sb, mb, wd, fee, result>>

\* deposit_approve that approves the largest allowance instead of amountBN
deposit_approve_unlimited ==
    /\ dep.pc = "approve"
    /\ \E ok \in BOOLEAN :
        LET io   == <<Event("write", "approve", ok,
                            [spender |-> dep.depositContract, amount |-> 2000000000,
                             signer |-> dep.signingKey])>>
            next == IF ~ok THEN Returned(handleError("approve failed"))
                    ELSE [dep EXCEPT !.pc = "approveWait"]
        IN  /\ dep' = next
            /\ events' = After("deposit", next, io)
    /\ UNCHANGED <<calls, world, inst, env, top, sb, mb, wd, fee, result>>

\* await tokenContract.approve(depositContract.address, amountBN, ...)
deposit_approve ==
    /\ dep.pc = "approve"
    /\ \E ok \in BOOLEAN :
        LET io   == <<Event("write", "approve", ok,
                            [spender |-> dep.depositContract, amount |-> dep.amountBN,
                             signer |-> dep.signingKey])>>
            next == IF ~ok THEN Returned(handleError("approve failed"))
                    ELSE [dep EXCEPT !.pc = "approveWait"]
        IN  /\ dep' = next
            /\ events' = After("deposit", next, io)
    /\ UNCHANGED <<calls, world, inst, env, top, sb, mb, wd, fee, result>>

\* deposit_approveWait that submits the approval again when the wait failed
deposit_approveWait_retry ==
    /\ dep.pc = "approveWait"
    /\ \E ok \in BOOLEAN :
        /\ dep' = [dep EXCEPT !.pc = IF ok THEN "depositTx" ELSE "approve"]
        /\ events' = events \o <<Event("wait", "approve", ok, <<>>)>>
    /\ UNCHANGED <<calls, world, inst, env, top, sb, mb, wd, fee, result>>

\* await approveTx.wait(1, 300000)
deposit_approveWait ==
    /\ dep.pc = "approveWait"
    /\ \E ok \in BOOLEAN :
        LET io   == <<Event("wait", "approve", ok, <<>>)>>
            next == IF ~ok THEN Returned(handleError("approval not confirmed"))
                    ELSE [dep EXCEPT !.pc = "depositTx"]
        IN  /\ dep' = next
            /\ events' = After("deposit", next, io)
    /\ UNCHANGED <<calls, world, inst, env, top, sb, mb, wd, fee, result>>

\* await depositContractInstance.deposit(normalizedTokenAddress, amountBN, 1000)
deposit_depositTx ==
    /\ dep.pc = "depositTx"
    /\ \E ok \in BOOLEAN :
        LET io   == <<Event("write", "deposit", ok,
                            [token |-> dep.tokenAddress, amount |-> dep.amountBN,
                             broker |-> 1000, signer |-> dep.signingKey])>>
            next == IF ~ok THEN Returned(handleError("deposit failed"))
                    ELSE [dep EXCEPT !.pc = "depositWait"]
        IN  /\ dep' = next
            /\ events' = After("deposit", next, io)
    /\ UNCHANGED <<calls, world, inst, env, top, sb, mb, wd, fee, result>>

\* await depositTx.wait(1, 300000), then the result
deposit_depositWait ==
    /\ dep.pc = "depositWait"
    /\ \E ok \in BOOLEAN :
        LET io   == <<Event("wait", "deposit", ok, <<>>)>>
            next == IF ~ok THEN Returned(handleError("deposit not confirmed"))
                    ELSE Returned([success |-> TRUE,
                                   deposit |-> [network |-> dep.network, token |-> dep.token,
                                                tokenAddress |-> dep.tokenAddress,
                                                amount |-> dep.amount,
                                                status |-> "confirmed"]])
        IN  /\ dep' = next
            /\ events' = After("deposit", next, io)
    /\ UNCHANGED <<calls, world, inst, env, top, sb, mb, wd, fee, result>>

\* await contract.depositNative(1000, {value: ethers.parseEther(amount)})
deposit_depositNative ==
    /\ dep.pc = "depositNative"
    /\ \E ok \in BOOLEAN :
        LET io   == <<Event("write", "depositNative", ok,
                            [value |-> dep.amount, broker |-> 1000,
                             signer |-> dep.signingKey])>>
            next == IF ~ok THEN Returned(handleError("depositNative failed"))
                    ELSE [dep EXCEPT !.pc = "nativeWait"]
        IN  /\ dep' = next
            /\ events' = After("deposit", next, io)
    /\ UNCHANGED <<calls, world, inst, env, top, sb, mb, wd, fee, result>>

\* await tx.wait(), then the result
deposit_nativeWait ==
    /\ dep.pc = "nativeWait"
    /\ \E ok \in BOOLEAN :
        LET io   == <<Event("wait", "depositNative", ok, <<>>)>>
            next == IF ~ok THEN Returned(handleError("deposit not confirmed"))
                    ELSE Returned([success |-> TRUE,
                                   deposit |-> [network |-> dep.network, token |-> dep.symbol,
                                                amount |-> dep.amount,
                                                status |-> "confirmed"]])
        IN  /\ dep' = next
            /\ events' = After("deposit", next, io)
    /\ UNCHANGED <<calls, world, inst, env, top, sb, mb, wd, fee, result>>

\* _depositSolana: await connection.getLatestBlockhash('confirmed')
depositSolana_blockhash ==
    /\ dep.pc = "solBlockhash"
    /\ \E ok \in BOOLEAN :
        LET io   == <<Event("read", "getLatestBlockhash", ok, <<>>)>>
            next == IF ~ok THEN Returned(handleError("failed to get recent blockhash"))
                    ELSE [dep EXCEPT !.pc = "solSend"]
        IN  /\ dep' = next
            /\ events' = After("deposit", next, io)
    /\ UNCHANGED <<calls, world, inst, env, top, sb, mb, wd, fee, result>>

\* _depositSolana: await sendAndConfirmTransaction(...)
depositSolana_send ==
    /\ dep.pc = "solSend"
    /\ \E ok \in BOOLEAN :
        LET io   == <<Event("write", "sendAndConfirmTransaction", ok,
                            [amount |-> dep.amount, amountSOL |-> dep.amountSOL,
                             signer |-> dep.signingKey])>>
            next == IF ~ok THEN Returned(handleError("transaction failed"))
                    ELSE [dep EXCEPT !.pc = "solGetTx"]
        IN  /\ dep' = next
            /\ events' = After("deposit", next, io)
    /\ UNCHANGED <<calls, world, inst, env, top, sb, mb, wd, fee, result>>

\* _depositSolana: await connection.getTransaction(signature, ...), then the result
depositSolana_getTransaction ==
    /\ dep.pc = "solGetTx"
    /\ \E ok \in BOOLEAN :
        LET io   == <<Event("read", "getTransaction", ok, <<>>)>>
            next == IF ~ok THEN Returned(handleError("failed to get transaction"))
                    ELSE Returned([success |-> TRUE,
                                   deposit |-> [network |-> <<"S", "o", "l", "a", "n", "a">>,
                                                token |-> dep.symbol,
                                                amount |-> dep.amount,
                                                status |-> "confirmed"]])
        IN  /\ dep' = next
            /\ events' = After("deposit", next, io)
    /\ UNCHANGED <<calls, world, inst, env, top, sb, mb, wd, fee, result>>

----------------------------------------------------------------------------
(* tools.js: marketBuy                                                     *)

OrderBodies == {JsNull} \cup {[orderId |-> 1, executedQty |-> q] : q \in ExecutedQtys}

\* marketBuy(symbol, quoteAmount) up to its await of the order request
marketBuy(symbol, quoteAmount) ==
    IF ~validateTradingSymbol(symbol) THEN
        Returned(handleError("Invalid trading symbol format"))
    ELSE IF ~validateAmount(quoteAmount) THEN
        Returned(handleError("quoteAmount must be a positive number"))
    ELSE [pc |-> "order",
          orderParams |-> [symbol |-> toUpperCase(symbol), side |-> "BUY",
                           type |-> "MARKET", quoteOrderQty |-> quoteAmount]]

\* await this._asterApiRequest('/api/v1/order', 'POST', orderParams, true)
marketBuy_order ==
    /\ mb.pc = "order"
    /\ \E outcome \in HttpOutcomes(OrderBodies), now \in ClockValues :
        LET r    == makeApiRequest(inst, "/api/v1/order", "POST", mb.orderParams, TRUE,
                                   outcome, now)
            next == IF ~r.response.success
                    THEN Returned([success |-> FALSE, error |-> r.response.error])
                    ELSE IF r.response.data = JsNull
                    THEN Returned(handleError("Cannot read properties of null"))
                    ELSE Returned([success |-> TRUE,
                                   order |-> [orderId |-> r.response.data.orderId,
                                              symbol |-> mb.orderParams.symbol,
                                              side |-> "BUY",
                                              executedQty |-> r.response.data.executedQty]])
        IN  /\ mb' = next
            /\ events' = After("marketBuy", next, r.sent)
    /\ UNCHANGED <<calls, world, inst, env, top, sb, dep, wd, fee, result>>

----------------------------------------------------------------------------
(* tools.js: getWithdrawFee and withdraw                                   *)

chainIdMap(networkLower) ==
    CASE networkLower = <<"e", "t", "h", "e", "r", "e", "u", "m">> -> "1"
      [] networkLower = <<"a", "r", "b", "i", "t", "r", "u", "m">> -> "42161"
      [] networkLower = <<"b", "n", "b">> -> "56"

\* getWithdrawFee(token, network) up to its await of the fee request
getWithdrawFee(token, network) ==
    IF ~validateNetwork(network, EvmNetworks) THEN Returned(handleError("Invalid network"))
    ELSE [pc |-> "http", token |-> token, network |-> network,
          chainId |-> chainIdMap(toLowerCase(network))]

\* await this._asterApiRequest('/api/v1/aster/withdraw/estimateFee', 'GET', ..., true)
getWithdrawFee_http ==
    /\ fee.pc = "http"
    /\ \E outcome \in HttpOutcomes(FeeBodies \cup {JsNull}), now \in ClockValues :
        LET r    == makeApiRequest(inst, "/api/v1/aster/withdraw/estimateFee", "GET",
                                   [chainId |-> fee.chainId, asset |-> toUpperCase(fee.token)],
                                   TRUE, outcome, now)
            data == r.response.data
            quoted == IF Truthy(data.gasCost) THEN data.gasCost ELSE data.fee
            next == IF ~r.response.success
                    THEN Returned([success |-> FALSE, error |-> r.response.error])
                    ELSE IF data = JsNull
                    THEN Returned(handleError("Cannot read properties of null"))
                    ELSE IF quoted \in {JsNull, Undefined}
                    THEN Returned([success |-> FALSE,
                                   error |-> Text("Withdrawal fee not available"),
                                   chainId |-> fee.chainId,
                                   token |-> toUpperCase(fee.token),
                                   network |-> fee.network])
                    ELSE Returned([success |-> TRUE, token |-> toUpperCase(fee.token),
                                   network |-> fee.network, chainId |-> fee.chainId,
                                   fee |-> quoted])
        IN  /\ fee' = next
            /\ events' = After("getWithdrawFee", next, r.sent)
    /\ UNCHANGED <<calls, world, inst, env, top, sb, dep, mb, wd, result>>

Stablecoins == {<<"U", "S", "D", "T">>, <<"U", "S", "D", "C">>, <<"B", "U", "S", "D">>,
                <<"D", "A", "I">>, <<"T", "U", "S", "D">>}

\* withdraw that resolves the signing key before it checks the stablecoin
\* minimum
withdraw_keyFirst(e, network, token, amount, toAddress, privateKey) ==
    IF ~validateNetwork(network, EvmNetworks) THEN Returned(handleError("Invalid network"))
    ELSE IF ~validateAmount(amount) THEN
        Returned(handleError("amount must be a positive number"))
    ELSE
    LET tokenUpper   == toUpperCase(token)
        networkLower == toLowerCase(network)
        signingKey   == getNetworkPrivateKey(e, networkLower, privateKey)
        receiver     == WalletAddress(signingKey.key)
    IN  IF ~signingKey.ok THEN Returned(handleError(signingKey.error))
        ELSE IF signingKey.key \notin EvmKeys THEN Returned(handleError("invalid private key"))
        ELSE IF tokenUpper \in Stablecoins /\ LessThanOne(parseFloat(amount)) THEN
            Returned([success |-> FALSE, error |-> Text("Minimum withdrawal amount is 1.0")])
        ELSE [pc |-> "fee", network |-> network, token |-> token, tokenUpper |-> tokenUpper,
              amount |-> amount, chainId |-> chainIdMap(networkLower),
              signingKey |-> signingKey.key, receiver |-> receiver,
              destination |-> IF Len(toAddress) > 0 THEN toAddress ELSE receiver,
              fee |-> Undefined, feeStr |-> <<>>, normalizedDestination |-> <<>>,
              timestamp |-> 0]

\* withdraw that asks for the fee quote before it looks at the signing key
withdraw_quoteFirst(e, network, token, amount, toAddress, privateKey) ==
    IF ~validateNetwork(network, EvmNetworks) THEN Returned(handleError("Invalid network"))
    ELSE IF ~validateAmount(amount) THEN
        Returned(handleError("amount must be a positive number"))
    ELSE
    LET tokenUpper   == toUpperCase(token)
        networkLower == toLowerCase(network)
        signingKey   == getNetworkPrivateKey(e, networkLower, privateKey)
        receiver     == WalletAddress(signingKey.key)
    IN  IF tokenUpper \in Stablecoins /\ LessThanOne(parseFloat(amount)) THEN
            Returned([success |-> FALSE, error |-> Text("Minimum withdrawal amount is 1.0")])
        ELSE [pc |-> "fee", network |-> network, token |-> token, tokenUpper |-> tokenUpper,
              amount |-> amount, chainId |-> chainIdMap(networkLower),
              signingKey |-> signingKey.key, receiver |-> receiver,
              destination |-> IF Len(toAddress) > 0 THEN toAddress ELSE receiver,
              fee |-> Undefined, feeStr |-> <<>>, normalizedDestination |-> <<>>,
              timestamp |-> 0]

\* withdraw(network, token, amount, toAddress, privateKey) up to its call of
\* getWithdrawFee
withdraw(e, network, token, amount, toAddress, privateKey) ==
    IF ~validateNetwork(network, EvmNetworks) THEN Returned(handleError("Invalid network"))
    ELSE IF ~validateAmount(amount) THEN
        Returned(handleError("amount must be a positive number"))
    ELSE
    LET tokenUpper   == toUpperCase(token)
        networkLower == toLowerCase(network)
        signingKey   == getNetworkPrivateKey(e, networkLower, privateKey)
        receiver     == WalletAddress(signingKey.key)
    IN  IF tokenUpper \in Stablecoins /\ LessThanOne(parseFloat(amount)) THEN
            Returned([success |-> FALSE, error |-> Text("Minimum withdrawal amount is 1.0")])
        ELSE IF ~signingKey.ok THEN Returned(handleError(signingKey.error))
        ELSE IF signingKey.key \notin EvmKeys THEN Returned(handleError("invalid private key"))
        ELSE [pc |-> "fee", network |-> network, token |-> token, tokenUpper |-> tokenUpper,
              amount |-> amount, chainId |-> chainIdMap(networkLower),
              signingKey |-> signingKey.key, receiver |-> receiver,
              destination |-> IF Len(toAddress) > 0 THEN toAddress ELSE receiver,
              fee |-> Undefined, feeStr |-> <<>>, normalizedDestination |-> <<>>,
              timestamp |-> 0]

\* the getWithdrawFee frame a withdraw frame has called
feeCall(frame) ==
    IF frame.pc = "fee" THEN getWithdrawFee(frame.token, frame.network) ELSE Idle

\* the history after withdraw was called and ran to its first await
withdrawCalled(frame, feeFrame, args) ==
    events \o <<Event("call", "withdraw", TRUE, args)>>
           \o (IF frame.pc = "returned"
               THEN <<Event("return", "withdraw", frame.ret.success, <<>>)>>
               ELSE <<Event("call", "getWithdrawFee", TRUE, <<>>)>>)
           \o (IF feeFrame.pc = "returned"
               THEN <<Event("return", "getWithdrawFee", feeFrame.ret.success, <<>>)>>
               ELSE <<>>)

\* withdraw_fee that goes on with a fee of 0 when the quote failed
withdraw_fee_zero ==
    /\ wd.pc = "fee"
    /\ fee.pc = "returned"
    /\ \E now \in ClockValues :
       LET feeResponse == fee.ret
           normalized  == getAddress(wd.destination)
           quoted == IF feeResponse.success THEN feeResponse.fee ELSE Num(0)
           next == IF ~normalized.ok
                   THEN Returned(handleError("Invalid destination address"))
                   ELSE [wd EXCEPT !.pc = "sign", !.fee = quoted,
                                   !.feeStr = String(quoted),
                                   !.normalizedDestination = normalized.address,
                                   !.timestamp = now]
       IN  /\ wd' = next
           /\ events' = After("withdraw", next, <<>>)
    /\ fee' = Idle
    /\ UNCHANGED <<calls, world, inst, env, top, sb, dep, mb, result>>

\* const feeResponse = await this.getWithdrawFee(token, network), the checks
\* of the quote, const timestamp = Date.now(), and generateEIP712Signature
\* up to wallet.signTypedData
withdraw_fee ==
    /\ wd.pc = "fee"
    /\ fee.pc = "returned"
    /\ \E now \in ClockValues :
       LET feeResponse == fee.ret
           normalized  == getAddress(wd.destination)
           next == IF ~feeResponse.success
                   THEN Returned([success |-> FALSE,
                                  error |-> Text("Failed to get withdrawal fee: "
                                                 \o Interpolate(feeResponse.error))])
                   ELSE IF feeResponse.fee \in {JsNull, Undefined}
                   THEN Returned([success |-> FALSE,
                                  error |-> Text("Failed to get withdrawal fee: API returned null/undefined fee")])
                   ELSE IF ~normalized.ok
                   THEN Returned(handleError("Invalid destination address"))
                   ELSE [wd EXCEPT !.pc = "sign", !.fee = feeResponse.fee,
                                   !.feeStr = String(feeResponse.fee),
                                   !.normalizedDestination = normalized.address,
                                   !.timestamp = now]
       IN  /\ wd' = next
           /\ events' = After("withdraw", next, <<>>)
    /\ fee' = Idle
    /\ UNCHANGED <<calls, world, inst, env, top, sb, dep, mb, result>>

WithdrawBodies == {JsNull, [id |-> 7, status |-> Undefined]}

\* await wallet.signTypedData(domain, types, value): the typed-data signature
withdraw_sign ==
    /\ wd.pc = "sign"
    /\ wd' = [wd EXCEPT !.pc = "submit"]
    /\ events' = events \o
           <<Event("sign", "signTypedData", TRUE,
                   [chainId |-> wd.chainId, destination |-> wd.normalizedDestination,
                    token |-> wd.tokenUpper, amount |-> wd.amount, fee |-> wd.feeStr,
                    nonce |-> wd.timestamp * 1000, signer |-> wd.signingKey])>>
    /\ UNCHANGED <<calls, world, inst, env, top, sb, dep, mb, fee, result>>

\* await this._asterApiRequest('/api/v1/aster/user-withdraw', 'POST', withdrawParams, true)
withdraw_submit ==
    /\ wd.pc = "submit"
    /\ \E outcome \in HttpOutcomes(WithdrawBodies), now \in ClockValues :
        LET r    == makeApiRequest(inst, "/api/v1/aster/user-withdraw", "POST",
                                   [chainId |-> wd.chainId, asset |-> wd.tokenUpper,
                                    amount |-> wd.amount, fee |-> wd.feeStr,
                                    receiver |-> wd.receiver,
                                    nonce |-> String(Num(wd.timestamp * 1000)),
                                    timestamp |-> Num(wd.timestamp)],
                                   TRUE, outcome, now)
            next == IF ~r.response.success
                    THEN Returned([success |-> FALSE, error |-> r.response.error])
                    ELSE IF r.response.data = JsNull
                    THEN Returned(handleError("Cannot read properties of null"))
                    ELSE Returned([success |-> TRUE,
                                   withdrawal |-> [id |-> r.response.data.id,
                                                   network |-> wd.network,
                                                   chainId |-> wd.chainId,
                                                   token |-> wd.tokenUpper,
                                                   amount |-> wd.amount,
                                                   fee |-> wd.fee,
                                                   from |-> wd.receiver,
                                                   to |-> wd.destination,
                                                   status |-> IF Truthy(r.response.data.status)
                                                              THEN r.response.data.status
                                                              ELSE Str(<<"p", "e", "n", "d", "i", "n", "g">>)]])
        IN  /\ now >= wd.timestamp
            /\ wd' = next
            /\ events' = After("withdraw", next, r.sent)
    /\ UNCHANGED <<calls, world, inst, env, top, sb, dep, mb, fee, result>>

----------------------------------------------------------------------------
(* tools.js: swapAndBridge                                                 *)

\* the inputs swapAndBridge is called with in the model
BridgeNetworks == {<<"e", "t", "h", "e", "r", "e", "u", "m">>,
                   <<"s", "o", "l", "a", "n", "a">>}
BridgeTokens   == {<<"U", "S", "D", "T">>, <<"e", "t", "h">>, <<"S", "O", "L">>}
BridgeAmounts  == {<<"1", "0", "0">>, <<"0">>, <<"1", "a", "b", "c">>}
BridgeTargets  == {<<"A", "S", "T", "E", "R">>, <<"U", "S", "D", "C">>}
BridgeAddresses == {<<"0", "x", "A", "1">>, <<"0", "x", "1", "2", "3">>}

\* swapAndBridge_deposit without the check of depositResult.success
swapAndBridge_deposit_unchecked ==
    /\ sb.pc = "deposit"
    /\ dep.pc = "returned"
    /\ sb' = [sb EXCEPT !.pc = "delay1",
                        !.steps = Append(@, [step |-> 1, action |-> "deposit",
                                             result |-> dep.ret])]
    /\ events' = events
    /\ dep' = Idle
    /\ UNCHANGED <<calls, world, inst, env, top, mb, wd, fee, result>>

\* await this.deposit(...) has returned: the failure result, or step 1 is
\* pushed and the 5 s settlement timer is started
swapAndBridge_deposit ==
    /\ sb.pc = "deposit"
    /\ dep.pc = "returned"
    /\ LET depositResult == dep.ret
           next == IF ~depositResult.success
                   THEN Returned([success |-> FALSE,
                                  error |-> Text("Deposit failed: "
                                                 \o Interpolate(depositResult.error)),
                                  failedAt |-> "deposit"])
                   ELSE [sb EXCEPT !.pc = "delay1",
                                   !.steps = Append(@, [step |-> 1, action |-> "deposit",
                                                        result |-> depositResult.deposit])]
       IN  /\ sb' = next
           /\ events' = After("swapAndBridge", next, <<>>)
    /\ dep' = Idle
    /\ UNCHANGED <<calls, world, inst, env, top, mb, wd, fee, result>>

\* the 5 s timer fired: this.marketBuy(tradingPair, fromAmount) is called
swapAndBridge_marketBuy ==
    /\ sb.pc = "delay1"
    /\ LET tradingPair == toUpperCase(sb.targetToken \o sb.fromToken)
           frame       == marketBuy(tradingPair, sb.fromAmount)
       IN  /\ mb' = frame
           /\ events' = Called("marketBuy", frame,
                               [symbol |-> tradingPair, amount |-> sb.fromAmount])
    /\ sb' = [sb EXCEPT !.pc = "swap"]
    /\ UNCHANGED <<calls, world, inst, env, top, dep, wd, fee, result>>

\* swapAndBridge_swap that, when the buy failed, sends the deposit back to
\* the source network instead of returning
swapAndBridge_swap_refund ==
    /\ sb.pc = "swap"
    /\ mb.pc = "returned"
    /\ LET swapResult == mb.ret
       IN  sb' = IF ~swapResult.success
                 THEN [sb EXCEPT !.pc = "delay2", !.executedQty = sb.fromAmount,
                                 !.targetToken = sb.fromToken,
                                 !.toNetwork = sb.fromNetwork]
                 ELSE [sb EXCEPT !.pc = "delay2",
                                 !.executedQty = swapResult.order.executedQty,
                                 !.steps = Append(@, [step |-> 2, action |-> "swap",
                                                      result |-> swapResult.order])]
    /\ events' = events
    /\ mb' = Idle
    /\ UNCHANGED <<calls, world, inst, env, top, dep, wd, fee, result>>

\* await this.marketBuy(...) has returned: the failure result, or step 2 is
\* pushed and the 3 s settlement timer is started
swapAndBridge_swap ==
    /\ sb.pc = "swap"
    /\ mb.pc = "returned"
    /\ LET swapResult == mb.ret
           next == IF ~swapResult.success
                   THEN Returned([success |-> FALSE,
                                  error |-> Text("Swap failed: "
                                                 \o Interpolate(swapResult.error)),
                                  failedAt |-> "swap",
                                  partialResults |-> [success |-> TRUE, steps |-> sb.steps]])
                   ELSE [sb EXCEPT !.pc = "delay2",
                                   !.executedQty = swapResult.order.executedQty,
                                   !.steps = Append(@, [step |-> 2, action |-> "swap",
                                                        result |-> swapResult.order])]
       IN  /\ sb' = next
           /\ events' = After("swapAndBridge", next, <<>>)
    /\ mb' = Idle
    /\ UNCHANGED <<calls, world, inst, env, top, dep, wd, fee, result>>

\* swapAndBridge_withdraw that withdraws the amount the bridge was called
\* with instead of the quantity the buy executed
swapAndBridge_withdraw_inputAmount ==
    /\ sb.pc = "delay2"
    /\ LET withdrawAmount == sb.fromAmount
           frame    == withdraw(env, sb.toNetwork, sb.targetToken, withdrawAmount,
                                sb.toAddress, sb.privateKey)
           feeFrame == feeCall(frame)
       IN  /\ wd' = frame
           /\ fee' = feeFrame
           /\ events' = withdrawCalled(frame, feeFrame,
                                        [network |-> sb.toNetwork, token |-> sb.targetToken,
                                         amount |-> withdrawAmount,
                                         toAddress |-> sb.toAddress])
    /\ sb' = [sb EXCEPT !.pc = "withdraw"]
    /\ UNCHANGED <<calls, world, inst, env, top, dep, mb, result>>

\* the 3 s timer fired: this.withdraw(toNetwork, targetToken, withdrawAmount,
\* toAddress, privateKey) is called
swapAndBridge_withdraw ==
    /\ sb.pc = "delay2"
    /\ LET withdrawAmount == sb.executedQty
           frame    == withdraw(env, sb.toNetwork, sb.targetToken, withdrawAmount,
                                sb.toAddress, sb.privateKey)
           feeFrame == feeCall(frame)
       IN  /\ wd' = frame
           /\ fee' = feeFrame
           /\ events' = withdrawCalled(frame, feeFrame,
                                        [network |-> sb.toNetwork, token |-> sb.targetToken,
                                         amount |-> withdrawAmount,
                                         toAddress |-> sb.toAddress])
    /\ sb' = [sb EXCEPT !.pc = "withdraw"]
    /\ UNCHANGED <<calls, world, inst, env, top, dep, mb, result>>

\* await this.withdraw(...) has returned: the failure result, or step 3 is
\* pushed and the summary is returned
swapAndBridge_result ==
    /\ sb.pc = "withdraw"
    /\ wd.pc = "returned"
    /\ LET withdrawResult == wd.ret
           next == IF ~withdrawResult.success
                   THEN Returned([success |-> FALSE,
                                  error |-> Text("Withdrawal failed: "
                                                 \o Interpolate(withdrawResult.error)),
                                  failedAt |-> "withdraw",
                                  partialResults |-> [success |-> TRUE, steps |-> sb.steps]])
                   ELSE Returned([success |-> TRUE,
                                  steps |-> Append(sb.steps,
                                                   [step |-> 3, action |-> "withdraw",
                                                    result |-> withdrawResult.withdrawal])])
       IN  /\ sb' = next
           /\ events' = After("swapAndBridge", next, <<>>)
    /\ wd' = Idle
    /\ UNCHANGED <<calls, world, inst, env, top, dep, mb, fee, result>>

----------------------------------------------------------------------------
(* tools.js: getNetworkBalance                                             *)

\* a text of 44 characters standing for the base58 address of an SPL mint
SolanaMint == <<"E", "P", "j", "F">> \o [i \in 1..40 |-> "1"]

\* the address of the Solana wallet of a key
SolanaWalletAddress(key) == <<"S", "o", "l">> \o [i \in 1..40 |-> "1"]

\* texts new PublicKey(text) accepts
PublicKeyTexts == {SolanaMint, SolanaWalletAddress("solenvkey")}

\* tokenAddress && !tokenAddress.startsWith('0x') && tokenAddress.length < 40
likelySymbol(tokenAddress) ==
    /\ tokenAddress # <<>>
    /\ ~(Len(tokenAddress) >= 2 /\ SubSeq(tokenAddress, 1, 2) = <<"0", "x">>)
    /\ Len(tokenAddress) < 40

\* resolveToken that takes a symbol the registry does not know as an address
resolveToken_lenient(tokenAddress, networkLower) ==
    LET tokenConfig == getTokenConfig(tokenAddress, networkLower)
    IN  IF likelySymbol(tokenAddress) /\ tokenConfig # Null THEN
            [ok |-> TRUE, set |-> tokenConfig.type # "native", registry |-> TRUE,
             address |-> IF tokenConfig.type = "native" THEN <<>> ELSE tokenConfig.address,
             symbol |-> tokenConfig.symbol]
        ELSE [ok |-> TRUE, set |-> tokenAddress # <<>>, registry |-> FALSE,
              address |-> tokenAddress, symbol |-> <<>>]

\* resolvedTokenAddress and tokenSymbolFromConfig of getNetworkBalance: ok is
\* FALSE for a symbol the registry does not resolve, set says whether a
\* token address results, registry whether it comes from the registry
resolveToken(tokenAddress, networkLower) ==
    LET tokenConfig == getTokenConfig(tokenAddress, networkLower)
    IN  IF ~likelySymbol(tokenAddress) THEN
            [ok |-> TRUE, set |-> tokenAddress # <<>>, registry |-> FALSE,
             address |-> tokenAddress, symbol |-> <<>>]
        ELSE IF tokenConfig = Null THEN
            [ok |-> FALSE, set |-> FALSE, registry |-> FALSE, address |-> <<>>,
             symbol |-> <<>>]
        ELSE [ok |-> TRUE, set |-> tokenConfig.type # "native", registry |-> TRUE,
              address |-> IF tokenConfig.type = "native" THEN <<>> ELSE tokenConfig.address,
              symbol |-> tokenConfig.symbol]

\* the wallet whose balance is asked for: the address given, else the
\* address of the key configured for the network
balanceWallet(e, networkLower, address) ==
    LET key    == getNetworkPrivateKey(e, networkLower, "")
        solana == networkLower = <<"s", "o", "l", "a", "n", "a">>
    IN  IF address # <<>> THEN [ok |-> TRUE, address |-> address]
        ELSE IF ~key.ok \/ key.key \notin (IF solana THEN SolanaKeys ELSE EvmKeys)
        THEN [ok |-> FALSE, address |-> <<>>]
        ELSE [ok |-> TRUE,
              address |-> IF solana THEN SolanaWalletAddress(key.key)
                          ELSE WalletAddress(key.key)]

\* what a balance read can answer: failure, or an amount in base units; for
\* the SPL read also that the wallet holds no account of the mint
BalanceAnswers ==
    {[ok |-> FALSE], [ok |-> TRUE, accounts |-> 0, amount |-> 0],
     [ok |-> TRUE, accounts |-> 1, amount |-> 0], [ok |-> TRUE, accounts |-> 1, amount |-> 5]}

\* getNetworkBalance(network, address, tokenAddress) with the answer of its
\* balance read: [result, io], io being the reads it issued.  The balance
\* is reported as the amount read; its formatting is not modelled.
getNetworkBalance(e, network, address, tokenAddress, answer) ==
    LET networkLower == toLowerCase(network)
        solana  == networkLower = <<"s", "o", "l", "a", "n", "a">>
        wallet  == balanceWallet(e, networkLower, address)
        rpc     == getNetworkRpcUrl(e, networkLower)
        token   == resolveToken(tokenAddress, networkLower)
        owner   == IF solana
                   THEN [ok |-> wallet.address \in PublicKeyTexts, address |-> wallet.address]
                   ELSE getAddress(wallet.address)
        mint    == IF token.registry THEN [ok |-> TRUE, address |-> token.address]
                   ELSE IF solana
                   THEN [ok |-> token.address \in PublicKeyTexts, address |-> token.address]
                   ELSE getAddress(token.address)
        call    == IF token.set
                   THEN (IF solana THEN "getParsedTokenAccountsByOwner" ELSE "balanceOf")
                   ELSE "getBalance"
        read    == <<Event("read", call, answer.ok,
                           [owner |-> owner.address,
                            token |-> IF token.set THEN mint.address ELSE <<>>])>>
        failed(r) == [result |-> r, io |-> <<>>]
    IN  IF ~validateNetwork(network, AllNetworks) THEN failed(handleError("Invalid network"))
        ELSE IF ~wallet.ok THEN
            failed([success |-> FALSE,
                    error |-> Text("No wallet address provided and unable to derive from environment")])
        ELSE IF ~rpc.ok THEN failed(handleError(rpc.error))
        ELSE IF ~token.ok THEN
            failed([success |-> FALSE, error |-> Text("Token is not supported on network")])
        ELSE IF ~owner.ok THEN failed(handleError("invalid address"))
        ELSE IF token.set /\ ~mint.ok THEN failed(handleError("invalid address"))
        ELSE IF ~answer.ok THEN [result |-> handleError("read failed"), io |-> read]
        ELSE [result |-> [success |-> TRUE, address |-> owner.address,
                          tokenAddress |-> IF token.set THEN mint.address ELSE <<>>,
                          balance |-> IF solana /\ token.set /\ answer.accounts = 0
                                      THEN 0 ELSE answer.amount,
                          symbol |-> token.symbol],
              io |-> read]

\* token references of a balance query: none, registry symbols, unknown
\* symbols (one spelled with 0x), an EVM contract address, an SPL mint
BalanceTokens ==
    {<<>>, <<"U", "S", "D", "T">>, <<"e", "t", "h">>, <<"X", "Y", "Z">>,
     <<"0", "x", "B", "T", "C">>, <<"0", "x", "C", "7">>, SolanaMint}

CallGetNetworkBalance ==
    /\ top = "none"
    /\ \E network \in NetworkInputs, address \in AddressInputs,
          tokenAddress \in BalanceTokens, answer \in BalanceAnswers :
        LET r == getNetworkBalance(env, network, address, tokenAddress, answer)
        IN  /\ result' = r.result
            /\ events' = <<Event("call", "getNetworkBalance", TRUE,
                                 [network |-> network, address |-> address,
                                  tokenAddress |-> tokenAddress])>>
                         \o r.io
    /\ top' = "getNetworkBalance"
    /\ UNCHANGED <<calls, world, inst, env, sb, dep, mb, wd, fee>>

----------------------------------------------------------------------------
(* The caller: one public operation is invoked and its result delivered     *)

CallDeposit ==
    /\ top = "none"
    /\ \E network \in NetworkInputs, token \in TokenInputs, amount \in AmountInputs,
          privateKey \in UserKeyInputs :
        LET frame == deposit(env, network, token, amount, privateKey)
        IN  /\ dep' = frame
            /\ events' = Called("deposit", frame,
                                [network |-> network, token |-> token, amount |-> amount,
                                 privateKey |-> privateKey])
    /\ top' = "deposit"
    /\ UNCHANGED <<calls, world, inst, env, sb, mb, wd, fee, result>>

CallMarketBuy ==
    /\ top = "none"
    /\ \E symbol \in SymbolInputs, quoteAmount \in AmountInputs :
        LET frame == marketBuy(symbol, quoteAmount)
        IN  /\ mb' = frame
            /\ events' = Called("marketBuy", frame,
                                [symbol |-> symbol, amount |-> quoteAmount])
    /\ top' = "marketBuy"
    /\ UNCHANGED <<calls, world, inst, env, sb, dep, wd, fee, result>>

CallGetWithdrawFee ==
    /\ top = "none"
    /\ \E token \in TokenInputs, network \in NetworkInputs :
        LET frame == getWithdrawFee(token, network)
        IN  /\ fee' = frame
            /\ events' = Called("getWithdrawFee", frame,
                                [network |-> network, token |-> token])
    /\ top' = "getWithdrawFee"
    /\ UNCHANGED <<calls, world, inst, env, sb, dep, mb, wd, result>>

CallWithdraw ==
    /\ top = "none"
    /\ \E network \in NetworkInputs, token \in WithdrawTokens, amount \in AmountInputs,
          toAddress \in AddressInputs, privateKey \in UserKeyInputs :
        LET frame    == withdraw(env, network, token, amount, toAddress, privateKey)
            feeFrame == feeCall(frame)
        IN  /\ wd' = frame
            /\ fee' = feeFrame
            /\ events' = withdrawCalled(frame, feeFrame,
                                         [network |-> network, token |-> token,
                                          amount |-> amount, toAddress |-> toAddress,
                                          privateKey |-> privateKey])
    /\ top' = "withdraw"
    /\ UNCHANGED <<calls, world, inst, env, sb, dep, mb, result>>

CallSwapAndBridge ==
    /\ top = "none"
    /\ \E fromNetwork \in BridgeNetworks, fromToken \in BridgeTokens,
          fromAmount \in BridgeAmounts, targetToken \in BridgeTargets,
          toNetwork \in BridgeNetworks, toAddress \in BridgeAddresses,
          privateKey \in UserKeyInputs :
        LET frame == deposit(env, fromNetwork, fromToken, fromAmount, privateKey)
        IN  /\ sb' = [pc |-> "deposit", fromNetwork |-> fromNetwork,
                      fromToken |-> fromToken, fromAmount |-> fromAmount,
                      targetToken |-> targetToken, toNetwork |-> toNetwork,
                      toAddress |-> toAddress, privateKey |-> privateKey,
                      executedQty |-> <<>>, steps |-> <<>>]
            /\ dep' = frame
            /\ events' = events
                    \o <<Event("call", "swapAndBridge", TRUE,
                               [network |-> fromNetwork, token |-> fromToken,
                                amount |-> fromAmount, targetToken |-> targetToken,
                                toNetwork |-> toNetwork, toAddress |-> toAddress])>>
                    \o <<Event("call", "deposit", TRUE,
                               [network |-> fromNetwork, token |-> fromToken,
                                amount |-> fromAmount])>>
                                \o (IF frame.pc = "returned"
                                    THEN <<Event("return", "deposit", frame.ret.success, <<>>)>>
                                    ELSE <<>>)
    /\ top' = "swapAndBridge"
    /\ UNCHANGED <<calls, world, inst, env, mb, wd, fee, result>>

\* an exception in flight inside an operation
Thrown(message) == [thrown |-> message]

\* an operation body without the try block around it
catching_none(outcome) == outcome

\* try { ... } catch (error) { return handleError(error); } around the body
\* of every public operation: what the body threw is turned into a result
catching(outcome) ==
    IF "thrown" \in DOMAIN outcome THEN handleError(outcome.thrown) ELSE outcome

\* createEvmWallet(network): no await, the wallet is generated locally
CallCreateEvmWallet ==
    /\ top = "none"
    /\ \E network \in NetworkInputs, generated \in BOOLEAN :
        LET body == IF ~validateNetwork(network, EvmNetworks) THEN Thrown("Invalid network")
                    ELSE IF ~generated THEN Thrown("unable to generate mnemonic")
                    ELSE [success |-> TRUE, chainId |-> chainIdMap(toLowerCase(network)),
                          wallet |-> [address |-> WalletAddress(KeyOfMnemonic("new phrase")),
                                      privateKey |-> KeyOfMnemonic("new phrase"),
                                      mnemonic |-> "new phrase"]]
        IN  /\ result' = catching(body)
            /\ events' = <<Event("call", "createEvmWallet", TRUE, [network |-> network])>>
    /\ top' = "createEvmWallet"
    /\ UNCHANGED <<calls, world, inst, env, sb, dep, mb, wd, fee>>

\* createSolanaWallet(): await bip39.mnemonicToSeed(mnemonic), then the keypair
CallCreateSolanaWallet ==
    /\ top = "none"
    /\ \E generated \in BOOLEAN :
        LET body == IF ~generated THEN Thrown("unable to derive seed")
                    ELSE [success |-> TRUE, chainId |-> "mainnet-beta",
                          wallet |-> [address |-> SolanaWalletAddress("solnewkey"),
                                      privateKey |-> "solnewkey",
                                      mnemonic |-> "new phrase"]]
        IN  /\ result' = catching(body)
            /\ events' = <<Event("call", "createSolanaWallet", TRUE, <<>>)>>
    /\ top' = "createSolanaWallet"
    /\ UNCHANGED <<calls, world, inst, env, sb, dep, mb, wd, fee>>

\* bodies of the account, price and exchange-information endpoints
AccountBodies == {JsNull, [canTrade |-> TRUE, balances |-> Undefined],
                  [canTrade |-> TRUE, balances |-> [t |-> "array", v |-> <<>>]]}
PriceBodies == {JsNull, [symbol |-> <<"B", "T", "C", "U", "S", "D", "T">>,
                         price |-> <<"1">>]}
ExchangeBodies == {JsNull, [symbols |-> Undefined],
                   [symbols |-> [t |-> "array",
                                 v |-> <<[symbol |-> <<"B", "T", "C", "U", "S", "D", "T">>]>>]]}

\* getAccountBalance(): the signed account request, then
\* accountData.balances.map(...)
CallGetAccountBalance ==
    /\ top = "none"
    /\ \E outcome \in HttpOutcomes(AccountBodies), now \in ClockValues :
        LET r    == makeApiRequest(inst, "/api/v1/account", "GET", <<>>, TRUE, outcome, now)
            data == r.response.data
            body == IF ~r.response.success
                    THEN [success |-> FALSE, error |-> r.response.error]
                    ELSE IF data = JsNull THEN Thrown("Cannot read properties of null")
                    ELSE IF data.balances = Undefined
                    THEN Thrown("Cannot read properties of undefined")
                    ELSE [success |-> TRUE, canTrade |-> data.canTrade,
                          balances |-> data.balances]
        IN  /\ result' = catching(body)
            /\ events' = <<Event("call", "getAccountBalance", TRUE, <<>>)>> \o r.sent
    /\ top' = "getAccountBalance"
    /\ UNCHANGED <<calls, world, inst, env, sb, dep, mb, wd, fee>>

\* getPrice(symbol): validateTradingSymbol, then the unsigned ticker request
CallGetPrice ==
    /\ top = "none"
    /\ \E symbol \in SymbolInputs \cup {<<"B", "T", "C", "U", "S", "D", "T">>},
          outcome \in HttpOutcomes(PriceBodies), now \in ClockValues :
        LET r    == makeApiRequest(inst, "/api/v1/ticker/price", "GET",
                                   [symbol |-> toUpperCase(symbol)], FALSE, outcome, now)
            data == r.response.data
            valid == validateTradingSymbol(symbol)
            body == IF ~valid THEN Thrown("Invalid trading symbol format")
                    ELSE IF ~r.response.success
                    THEN [success |-> FALSE, error |-> r.response.error]
                    ELSE IF data = JsNull THEN Thrown("Cannot read properties of null")
                    ELSE [success |-> TRUE, symbol |-> data.symbol, price |-> data.price]
        IN  /\ result' = catching(body)
            /\ events' = <<Event("call", "getPrice", TRUE, [symbol |-> symbol])>>
                         \o (IF valid THEN r.sent ELSE <<>>)
    /\ top' = "getPrice"
    /\ UNCHANGED <<calls, world, inst, env, sb, dep, mb, wd, fee>>

\* getExchangeInfo(symbol): the symbol is validated when one is given, then
\* the unsigned exchange-information request and the lookup of the symbol
CallGetExchangeInfo ==
    /\ top = "none"
    /\ \E symbol \in SymbolInputs \cup {<<>>, <<"B", "T", "C", "U", "S", "D", "T">>},
          outcome \in HttpOutcomes(ExchangeBodies), now \in ClockValues :
        LET given == symbol # <<>>
            r    == makeApiRequest(inst, "/api/v1/exchangeInfo", "GET",
                                   IF given THEN [symbol |-> toUpperCase(symbol)] ELSE <<>>,
                                   FALSE, outcome, now)
            data == r.response.data
            valid == ~given \/ validateTradingSymbol(symbol)
            listed == \E n \in DOMAIN data.symbols.v :
                          data.symbols.v[n].symbol = toUpperCase(symbol)
            body == IF ~valid THEN Thrown("Invalid trading symbol format")
                    ELSE IF ~r.response.success
                    THEN [success |-> FALSE, error |-> r.response.error.message]
                    ELSE IF data = JsNull THEN Thrown("Cannot read properties of null")
                    ELSE IF given /\ data.symbols # Undefined /\ ~listed
                    THEN [success |-> FALSE, error |-> Text("Symbol not found on exchange")]
                    ELSE [success |-> TRUE, symbols |-> data.symbols]
        IN  /\ result' = catching(body)
            /\ events' = <<Event("call", "getExchangeInfo", TRUE, [symbol |-> symbol])>>
                         \o (IF valid THEN r.sent ELSE <<>>)
    /\ top' = "getExchangeInfo"
    /\ UNCHANGED <<calls, world, inst, env, sb, dep, mb, wd, fee>>

\* the frame of the public operation that was invoked
TopFrame ==
    CASE top = "deposit"        -> dep
      [] top = "marketBuy"      -> mb
      [] top = "getWithdrawFee" -> fee
      [] top = "withdraw"       -> wd
      [] top = "swapAndBridge"  -> sb
      [] OTHER                  -> Idle

\* Return that switches full debugging on in the instance once an operation
\* has failed
Return_debugging ==
    /\ result = Null
    /\ TopFrame.pc = "returned"
    /\ result' = TopFrame.ret
    /\ inst' = [inst EXCEPT !.debugFull = @ \/ ~TopFrame.ret.success]
    /\ UNCHANGED <<calls, world, env, top, sb, dep, mb, wd, fee, events>>

\* the promise of the public operation resolves: its caller gets the result
Return ==
    /\ result = Null
    /\ TopFrame.pc = "returned"
    /\ result' = TopFrame.ret
    /\ UNCHANGED <<calls, world, inst, env, top, sb, dep, mb, wd, fee, events>>

Init ==
    /\ \E c \in Configs : inst = c.inst /\ env = c.env
    /\ top = "none"
    /\ sb = Idle /\ dep = Idle /\ mb = Idle /\ wd = Idle /\ fee = Idle
    /\ events = <<>>
    /\ result = Null
    /\ calls = <<>>
    /\ world = <<>>

Next ==
    \/ CallDeposit
    \/ CallMarketBuy
    \/ CallGetWithdrawFee
    \/ CallWithdraw
    \/ CallSwapAndBridge
    \/ CallCreateEvmWallet
    \/ CallCreateSolanaWallet
    \/ CallGetAccountBalance
    \/ CallGetPrice
    \/ CallGetExchangeInfo
    \/ CallGetNetworkBalance
    \/ deposit_decimals
    \/ deposit_allowance
    \/ deposit_approve
    \/ deposit_approveWait
    \/ deposit_depositTx
    \/ deposit_depositWait
    \/ deposit_depositNative
    \/ deposit_nativeWait
    \/ depositSolana_blockhash
    \/ depositSolana_send
    \/ depositSolana_getTransaction
    \/ marketBuy_order
    \/ getWithdrawFee_http
    \/ withdraw_fee
    \/ withdraw_sign
    \/ withdraw_submit
    \/ swapAndBridge_deposit
    \/ swapAndBridge_marketBuy
    \/ swapAndBridge_swap
    \/ swapAndBridge_withdraw
    \/ swapAndBridge_result
    \/ Return

Spec == Init /\ [][Next]_vars

----------------------------------------------------------------------------
(* Two calls in a row, with the wallet configuration changed in between    *)

\* the configuration after the rotation: a new key for every network
RotatedEnv == WalletEnv("0xnewkey", "solnewkey", "", "https://rpc")

\* the events in which a key signs: transaction submissions and the
\* typed-data signature
Signed == {i \in DOMAIN events : events[i].io \in {"write", "sign"}}

\* a call that signed something has returned; the operator rotates the keys
\* in process.env and the next call can start.  The history keeps the key
\* the first call signed with and the configuration it ran under.
NextCall ==
    /\ result # Null
    /\ events[1].io # "previous"
    /\ Signed # {}
    /\ LET last == CHOOSE i \in Signed : \A j \in Signed : j <= i
       IN  events' = <<Event("previous", top, TRUE,
                             [signer |-> events[last].detail.signer, env |-> env])>>
    /\ env' = RotatedEnv
    /\ top' = "none"
    /\ result' = Null
    /\ dep' = Idle /\ wd' = Idle /\ fee' = Idle
    /\ UNCHANGED <<calls, world, inst, sb, mb>>

NextRotation ==
    \/ CallDeposit
    \/ CallWithdraw
    \/ deposit_decimals
    \/ deposit_allowance
    \/ deposit_approve
    \/ deposit_approveWait
    \/ deposit_depositTx
    \/ deposit_depositWait
    \/ deposit_depositNative
    \/ deposit_nativeWait
    \/ depositSolana_blockhash
    \/ depositSolana_send
    \/ depositSolana_getTransaction
    \/ getWithdrawFee_http
    \/ withdraw_fee
    \/ withdraw_sign
    \/ withdraw_submit
    \/ Return
    \/ NextCall

SpecRotation == Init /\ [][NextRotation]_vars

----------------------------------------------------------------------------
(* utils.js: the exported helpers, each called on its own                  *)

\* wallet configurations: every combination of a configured key and a
\* configured mnemonic (absent, well-formed, malformed)
KeyEnvs ==
    {WalletEnv(k, IF k = "" THEN "" ELSE "solenvkey", m, "https://rpc") :
        k \in {"", "0xenvkey"}, m \in {"", "good phrase", "bad phrase"}}

\* getNetworkPrivateKey(network, userPrivateKey) is called; each call of
\* ethers.Wallet.fromPhrase it makes is logged
CallGetNetworkPrivateKey ==
    /\ top = "none"
    /\ \E network \in AllNetworks, userPrivateKey \in UserKeyInputs :
        LET r == getNetworkPrivateKey(env, network, userPrivateKey)
        IN  /\ result' = r
            /\ events' = <<Event("call", "getNetworkPrivateKey", TRUE,
                                 [network |-> network, userPrivateKey |-> userPrivateKey])>>
                         \o [n \in 1..r.derivations |->
                                Event("derive", "Wallet.fromPhrase", r.ok,
                                      [phrase |-> getNetworkWalletEnv(env, network).mnemonic])]
    /\ top' = "getNetworkPrivateKey"
    /\ UNCHANGED <<calls, world, inst, env, sb, dep, mb, wd, fee>>

\* inputs of makeApiRequest: the methods, the parameter objects (two
\* insertion orders of the same pairs, caller-supplied timestamp and
\* recvWindow, also falsy ones, a value that needs escaping), the clock
Methods == {"GET", "DELETE", "POST", "PUT", "PATCH"}

Pair(key, value) == [key |-> key, value |-> value]

ParamInputs ==
    { <<>>,
      <<Pair(<<"s", "y", "m", "b", "o", "l">>, Str(<<"B", "T", "C", "U", "S", "D", "T">>))>>,
      <<Pair(<<"b">>, Num(1)), Pair(<<"a">>, Str(<<"x", "&", "y">>)), Pair(<<"Z">>, Num(3))>>,
      <<Pair(<<"Z">>, Num(3)), Pair(<<"a">>, Str(<<"x", "&", "y">>)), Pair(<<"b">>, Num(1))>>,
      <<Pair(<<"a", "b">>, Num(1)), Pair(<<"a">>, Num(2))>>,
      <<Pair(TimestampKey, Num(1700000)), Pair(<<"n", "o", "n", "c", "e">>, Num(7))>>,
      <<Pair(TimestampKey, Num(0))>>,
      <<Pair(RecvWindowKey, Num(60000))>>,
      <<Pair(RecvWindowKey, Num(0)), Pair(TimestampKey, Num(1700000))>> }

\* what axios can answer in the detailed model: also an error response
\* whose body has no code and no msg
TransportOutcomes ==
    {[kind |-> "ok", data |-> [orderId |-> 1]],
     [kind |-> "apiError", code |-> 1121, msg |-> "Invalid symbol.", status |-> 400],
     [kind |-> "apiError", code |-> 0, msg |-> "", status |-> 503],
     [kind |-> "network"]}

\* makeApiRequest(options) is called with the instance's settings and runs
\* to its result
CallMakeApiRequest ==
    /\ top = "none"
    /\ \E method \in Methods, params \in ParamInputs, signed \in BOOLEAN,
          now \in ClockValues, outcome \in TransportOutcomes :
        LET missing == credentialsMissing(signed, inst.asterApiKey, inst.asterApiSecret)
            config  == requestConfig(inst, "/api/v1/order", method, params, signed, now)
        IN  /\ result' = IF missing THEN thrownResult("API credentials not configured")
                         ELSE requestResult(outcome)
            /\ events' = <<Event("call", "makeApiRequest", TRUE,
                                 [method |-> method, params |-> params, signed |-> signed,
                                  paramsAfter |->
                                      IF missing THEN params
                                      ELSE paramsAfterRequest(cloneParams(params), signed, now,
                                                              inst.recvWindow).caller])>>
                         \o (IF missing THEN <<>>
                             ELSE <<Event("http", "/api/v1/order", outcome.kind = "ok",
                                          [config |-> config, now |-> now,
                                           answer |-> outcome])>>)
    /\ top' = "makeApiRequest"
    /\ UNCHANGED <<calls, world, inst, env, sb, dep, mb, wd, fee>>

(* The nonce of withdraw at full width.  A natural number is the sequence   *)
(* of its binary digits, least significant first, without leading zeros.   *)

RECURSIVE FromInt(_)
FromInt(n) == IF n = 0 THEN <<>> ELSE <<n % 2>> \o FromInt(n \div 2)

\* the binary digits without zeros at the most significant end
RECURSIVE Canonical(_)
Canonical(a) ==
    IF a = <<>> THEN <<>>
    ELSE IF a[Len(a)] = 0 THEN Canonical(SubSeq(a, 1, Len(a) - 1))
    ELSE a

RECURSIVE AddCarry(_, _, _)
AddCarry(a, b, carry) ==
    IF a = <<>> /\ b = <<>> THEN (IF carry = 1 THEN <<1>> ELSE <<>>)
    ELSE LET x == IF a = <<>> THEN 0 ELSE a[1]
             y == IF b = <<>> THEN 0 ELSE b[1]
             s == x + y + carry
         IN  <<s % 2>> \o AddCarry(IF a = <<>> THEN <<>> ELSE Tail(a),
                                   IF b = <<>> THEN <<>> ELSE Tail(b), s \div 2)

\* a + b, exactly
Add(a, b) == Canonical(AddCarry(a, b, 0))

\* a * 2^k, exactly
ShiftLeft(a, k) == IF a = <<>> THEN <<>> ELSE [i \in 1..k |-> 0] \o a

\* a * 1000, exactly: 1000 = 2^9 + 2^8 + 2^7 + 2^6 + 2^5 + 2^3
Times1000(a) ==
    Add(Add(Add(ShiftLeft(a, 9), ShiftLeft(a, 8)), Add(ShiftLeft(a, 7), ShiftLeft(a, 6))),
        Add(ShiftLeft(a, 5), ShiftLeft(a, 3)))

\* the significand of an IEEE 754 double holds 53 binary digits
SignificandBits == 53

\* the double nearest to the natural number a (ties to the even
\* significand), as the natural number it is equal to
NearestDouble(a) ==
    IF Len(a) <= SignificandBits THEN a
    ELSE LET d       == Len(a) - SignificandBits
             kept    == SubSeq(a, d + 1, Len(a))
             half    == a[d] = 1
             sticky  == \E i \in 1..(d - 1) : a[i] = 1
             roundUp == half /\ (sticky \/ kept[1] = 1)
         IN  ShiftLeft(IF roundUp THEN Add(kept, <<1>>) ELSE kept, d)

\* what Date.now() can return at full width: about the year 2023, 2^47 (even,
\* its product with 1000 is a double) and 2^47 + 1 (its product is not)
ClockBits ==
    {Times1000(FromInt(1700000000)),
     ShiftLeft(<<1>>, 47),
     Add(ShiftLeft(<<1>>, 47), <<1>>)}

\* const timestamp = Date.now(); const nonce = timestamp * 1000 is a product
\* of Numbers, so of doubles; generateEIP712Signature receives that Number
\* and signs BigInt(nonce)
withdrawNonce(timestamp) ==
    [timestamp |-> timestamp,
     nonce     |-> NearestDouble(Times1000(timestamp)),
     signed    |-> NearestDouble(Times1000(timestamp))]

\* the nonce computation of withdraw on its own
CallWithdrawNonce ==
    /\ top = "none"
    /\ \E timestamp \in ClockBits :
        /\ result' = withdrawNonce(timestamp)
        /\ events' = <<Event("call", "withdrawNonce", TRUE, [timestamp |-> timestamp])>>
    /\ top' = "withdrawNonce"
    /\ UNCHANGED <<calls, world, inst, env, sb, dep, mb, wd, fee>>

(* solana-deposit-builder.js: the instruction payload.  BigInt values are    *)
(* binary digit sequences as above; a Buffer is the sequence of its bytes.  *)

\* the BigInt of a hexadecimal literal, given by its digits, most
\* significant first
FromHex(digits) ==
    Canonical([i \in 1..(4 * Len(digits)) |->
                  (digits[Len(digits) - ((i - 1) \div 4)] \div (2 ^ ((i - 1) % 4))) % 2])

\* const BROKER_ID = 56357235818057297n, which is 0xC8389B7D754E51
BROKER_ID == FromHex(<<12, 8, 3, 8, 9, 11, 7, 13, 7, 5, 4, 14, 5, 1>>)

\* const DEPOSIT_DISCRIMINATOR = 0x6c
DEPOSIT_DISCRIMINATOR == 108

\* a | b of BigInts
BitOr(a, b) ==
    Canonical([i \in 1..(IF Len(a) > Len(b) THEN Len(a) ELSE Len(b)) |->
                  IF (i <= Len(a) /\ a[i] = 1) \/ (i <= Len(b) /\ b[i] = 1) THEN 1 ELSE 0])

\* a >> k of BigInts
ShiftRight(a, k) == IF Len(a) <= k THEN <<>> ELSE SubSeq(a, k + 1, Len(a))

\* binary digit i of a, 0 beyond its length
Bit(a, i) == IF i <= Len(a) THEN a[i] ELSE 0

\* the byte made of the binary digits from..from+7 of a
ByteAt(a, from) ==
    Bit(a, from) + 2 * Bit(a, from + 1) + 4 * Bit(a, from + 2) + 8 * Bit(a, from + 3)
    + 16 * Bit(a, from + 4) + 32 * Bit(a, from + 5) + 64 * Bit(a, from + 6)
    + 128 * Bit(a, from + 7)

\* writeBigUInt64LE that stores the most significant byte first
writeBigUInt64LE_bigEndian(data, value, offset) ==
    [ok |-> Len(value) <= 64,
     data |-> [i \in DOMAIN data |->
                  IF i > offset /\ i <= offset + 8
                  THEN ByteAt(value, 8 * (offset + 8 - i) + 1) ELSE data[i]]]

\* data.writeBigUInt64LE(value, offset): a RangeError for a value of more
\* than 64 binary digits
writeBigUInt64LE(data, value, offset) ==
    [ok |-> Len(value) <= 64,
     data |-> [i \in DOMAIN data |->
                  IF i > offset /\ i <= offset + 8
                  THEN ByteAt(value, 8 * (i - offset - 1) + 1) ELSE data[i]]]

RECURSIVE BytesLE(_)
BytesLE(bytes) ==
    IF bytes = <<>> THEN <<>>
    ELSE LET b == bytes[1]
         IN  <<b % 2, (b \div 2) % 2, (b \div 4) % 2, (b \div 8) % 2, (b \div 16) % 2,
               (b \div 32) % 2, (b \div 64) % 2, (b \div 128) % 2>> \o BytesLE(Tail(bytes))

\* data.readBigUInt64LE(offset)
readBigUInt64LE(data, offset) == Canonical(BytesLE(SubSeq(data, offset + 1, offset + 8)))

\* buildDepositInstructionData(amountLamports): [ok, data]
buildDepositInstructionData(amountLamports) ==
    LET alloc  == [i \in 1..16 |-> 0]
        first  == [alloc EXCEPT ![1] = DEPOSIT_DISCRIMINATOR]
        brokerWithDiscriminator == BitOr(ShiftLeft(BROKER_ID, 8), FromInt(DEPOSIT_DISCRIMINATOR))
        broker == writeBigUInt64LE(first, brokerWithDiscriminator, 0)
        amount == writeBigUInt64LE(broker.data, amountLamports, 8)
    IN  [ok |-> broker.ok /\ amount.ok, data |-> amount.data]

\* decodeInstructionData(data): the discriminator, the broker and the amount
decodeInstructionData(data) ==
    IF Len(data) # 16 THEN [ok |-> FALSE]
    ELSE [ok |-> TRUE, discriminator |-> data[1],
          broker |-> ShiftRight(readBigUInt64LE(data, 0), 8),
          amountLamports |-> readBigUInt64LE(data, 8)]

\* lamport amounts: 0, 1, one byte and its carry, 1 SOL, 2^53 + 1, 2^63,
\* 2^64 - 1 and, out of range, 2^64
LamportInputs ==
    {<<>>, <<1>>, FromInt(255), FromInt(256), FromInt(1000000000),
     Add(ShiftLeft(<<1>>, 53), <<1>>), ShiftLeft(<<1>>, 63),
     [i \in 1..64 |-> 1], ShiftLeft(<<1>>, 64)}

\* the payload is built for an amount and decoded again
CallBuildDepositInstructionData ==
    /\ top = "none"
    /\ \E amountLamports \in LamportInputs :
        LET built == buildDepositInstructionData(amountLamports)
        IN  /\ result' = [ok |-> built.ok,
                          data |-> IF built.ok THEN built.data ELSE <<>>,
                          decoded |-> IF built.ok THEN decodeInstructionData(built.data)
                                      ELSE [ok |-> FALSE]]
            /\ events' = <<Event("call", "buildDepositInstructionData", TRUE,
                                 [amountLamports |-> amountLamports])>>
    /\ top' = "buildDepositInstructionData"
    /\ UNCHANGED <<calls, world, inst, env, sb, dep, mb, wd, fee>>

(* tokens-config.js: getTokenConfig called on its own                       *)

\* symbols and network names in several spellings, known and unknown
SymbolSpellings ==
    {<<"u", "s", "d", "t">>, <<"U", "s", "d", "T">>, <<"U", "S", "D", "T">>,
     <<"e", "t", "h">>, <<"w", "B", "E", "T", "H">>, <<"u", "s", "d", "1">>,
     <<"X", "y", "z">>}

NetworkSpellings ==
    {<<"e", "t", "h", "e", "r", "e", "u", "m">>, <<"E", "t", "h", "e", "r", "e", "u", "m">>,
     <<"B", "N", "B">>, <<"b", "n", "b">>, <<"S", "o", "l", "a", "n", "a">>,
     <<"p", "o", "l", "y", "g", "o", "n">>}

CallGetTokenConfig ==
    /\ top = "none"
    /\ \E symbol \in SymbolSpellings, network \in NetworkSpellings :
        /\ result' = getTokenConfig(symbol, network)
        /\ events' = <<Event("call", "getTokenConfig", TRUE,
                             [symbol |-> symbol, network |-> network])>>
    /\ top' = "getTokenConfig"
    /\ UNCHANGED <<calls, world, inst, env, sb, dep, mb, wd, fee>>

InitUtils ==
    /\ inst \in {ToolsAPI("apikey", "apisecret"), ToolsAPI("apikey", ""),
                 ToolsAPI("", "apisecret"), ToolsAPI("", "")}
    /\ env \in KeyEnvs
    /\ top = "none"
    /\ sb = Idle /\ dep = Idle /\ mb = Idle /\ wd = Idle /\ fee = Idle
    /\ events = <<>>
    /\ result = Null
    /\ calls = <<>>
    /\ world = <<>>

NextUtils ==
    \/ CallGetNetworkPrivateKey
    \/ CallMakeApiRequest
    \/ CallWithdrawNonce
    \/ CallBuildDepositInstructionData
    \/ CallGetTokenConfig

SpecUtils == InitUtils /\ [][NextUtils]_vars

----------------------------------------------------------------------------
(* getNetworkBalance called on its own                                     *)

NextBalance ==
    \/ CallGetNetworkBalance

SpecBalance == Init /\ [][NextBalance]_vars

----------------------------------------------------------------------------
(* Invocations that overlap: the server answers each request in an async   *)
(* handler of its own, so the steps of two calls interleave at every await. *)
(* `calls` holds the frame of each; `world` holds what they share outside   *)
(* the process: the token contract (its decimals, the allowance of the      *)
(* wallet toward the deposit contract) and the wall clock.                  *)

Invocations == {1, 2}

\* both invocations deposit the same token from the same wallet
OverlapNetwork == <<"e", "t", "h", "e", "r", "e", "u", "m">>
OverlapToken   == <<"U", "S", "D", "T">>
OverlapAmounts == {<<"1", ".", "5">>, <<"3">>}

\* the history after a step of invocation i
AfterAt(i, op, frame, io) ==
    events \o io \o
    (IF frame.pc = "returned"
     THEN <<Event("return", op, frame.ret.success, [id |-> i])>> ELSE <<>>)

\* the handler of a deposit request starts: deposit up to its first await
CallDepositAt(i) ==
    /\ calls[i].pc = "idle"
    /\ \E amount \in OverlapAmounts :
        LET frame == deposit(env, OverlapNetwork, OverlapToken, amount, "")
        IN  /\ calls' = [calls EXCEPT ![i] = frame]
            /\ events' = AfterAt(i, "deposit", frame,
                                 <<Event("call", "deposit", TRUE,
                                         [id |-> i, network |-> OverlapNetwork,
                                          token |-> OverlapToken, amount |-> amount])>>)
    /\ UNCHANGED <<world, inst, env, top, sb, dep, mb, wd, fee, result>>

\* await tokenContract.decimals(), then ethers.parseUnits(amount, decimals)
deposit_decimals_at(i) ==
    /\ calls[i].pc = "decimals"
    /\ \E ok \in BOOLEAN :
        LET f    == calls[i]
            io   == <<Event("read", "decimals", ok,
                            [id |-> i, value |-> IF ok THEN world.decimals ELSE 0])>>
            next == IF ~ok THEN Returned(handleError("decimals() failed"))
                    ELSE IF ~parseUnitsAccepts(f.amount, world.decimals)
                    THEN Returned(handleError("invalid FixedNumber string value"))
                    ELSE [f EXCEPT !.pc = "allowance", !.decimals = world.decimals,
                                   !.amountBN = parseUnits(f.amount, world.decimals)]
        IN  /\ calls' = [calls EXCEPT ![i] = next]
            /\ events' = AfterAt(i, "deposit", next, io)
    /\ UNCHANGED <<world, inst, env, top, sb, dep, mb, wd, fee, result>>

\* await tokenContract.allowance(...): the allowance the chain holds now
deposit_allowance_at(i) ==
    /\ calls[i].pc = "allowance"
    /\ \E ok \in BOOLEAN :
        LET f    == calls[i]
            currentAllowance == world.allowance
            io   == <<Event("read", "allowance", ok,
                            [id |-> i, value |-> currentAllowance,
                             required |-> f.amountBN])>>
            next == IF ~ok THEN Returned(handleError("allowance() failed"))
                    ELSE IF currentAllowance < f.amountBN
                    THEN [f EXCEPT !.pc = "approve"]
                    ELSE [f EXCEPT !.pc = "depositTx"]
        IN  /\ calls' = [calls EXCEPT ![i] = next]
            /\ events' = AfterAt(i, "deposit", next, io)
    /\ UNCHANGED <<world, inst, env, top, sb, dep, mb, wd, fee, result>>

\* await tokenContract.approve(depositContract.address, amountBN, ...)
deposit_approve_at(i) ==
    /\ calls[i].pc = "approve"
    /\ \E ok \in BOOLEAN :
        LET f    == calls[i]
            io   == <<Event("write", "approve", ok, [id |-> i, amount |-> f.amountBN])>>
            next == IF ~ok THEN Returned(handleError("approve failed"))
                    ELSE [f EXCEPT !.pc = "approveWait"]
        IN  /\ calls' = [calls EXCEPT ![i] = next]
            /\ events' = AfterAt(i, "deposit", next, io)
    /\ UNCHANGED <<world, inst, env, top, sb, dep, mb, wd, fee, result>>

\* await approveTx.wait(1, 300000): once the approval is confirmed the
\* token contract holds the approved amount as the allowance (ERC-20
\* approve replaces the allowance)
deposit_approveWait_at(i) ==
    /\ calls[i].pc = "approveWait"
    /\ \E ok \in BOOLEAN :
        LET f    == calls[i]
            io   == <<Event("wait", "approve", ok, [id |-> i])>>
            next == IF ~ok THEN Returned(handleError("approval not confirmed"))
                    ELSE [f EXCEPT !.pc = "depositTx"]
        IN  /\ calls' = [calls EXCEPT ![i] = next]
            /\ events' = AfterAt(i, "deposit", next, io)
            /\ world' = IF ok THEN [world EXCEPT !.allowance = f.amountBN] ELSE world
    /\ UNCHANGED <<inst, env, top, sb, dep, mb, wd, fee, result>>

\* await depositContractInstance.deposit(normalizedTokenAddress, amountBN,
\* 1000): the call is submitted whatever the allowance has become; it
\* cannot succeed when the allowance does not cover the amount
deposit_depositTx_at(i) ==
    /\ calls[i].pc = "depositTx"
    /\ \E ok \in BOOLEAN :
        LET f    == calls[i]
            io   == <<Event("write", "deposit", ok,
                            [id |-> i, amount |-> f.amountBN,
                             allowance |-> world.allowance])>>
            next == IF ~ok THEN Returned(handleError("deposit failed"))
                    ELSE [f EXCEPT !.pc = "depositWait"]
        IN  /\ ok => world.allowance >= f.amountBN
            /\ calls' = [calls EXCEPT ![i] = next]
            /\ events' = AfterAt(i, "deposit", next, io)
    /\ UNCHANGED <<world, inst, env, top, sb, dep, mb, wd, fee, result>>

\* await depositTx.wait(1, 300000), then the result: the confirmed deposit
\* has drawn its amount from the allowance (ERC-20 transferFrom)
deposit_depositWait_at(i) ==
    /\ calls[i].pc = "depositWait"
    /\ \E ok \in BOOLEAN :
        LET f    == calls[i]
            drawn == ok /\ world.allowance >= f.amountBN
            io   == <<Event("wait", "deposit", drawn, [id |-> i])>>
            next == IF ~drawn THEN Returned(handleError("deposit not confirmed"))
                    ELSE Returned([success |-> TRUE,
                                   deposit |-> [network |-> f.network, token |-> f.token,
                                                tokenAddress |-> f.tokenAddress,
                                                amount |-> f.amount,
                                                status |-> "confirmed"]])
        IN  /\ calls' = [calls EXCEPT ![i] = next]
            /\ events' = AfterAt(i, "deposit", next, io)
            /\ world' = IF drawn
                        THEN [world EXCEPT !.allowance = @ - f.amountBN] ELSE world
    /\ UNCHANGED <<inst, env, top, sb, dep, mb, wd, fee, result>>

InitOverlap ==
    /\ inst = ToolsAPI("apikey", "apisecret")
    /\ env = WalletEnv("0xenvkey", "solenvkey", "", "https://rpc")
    /\ top = "none"
    /\ sb = Idle /\ dep = Idle /\ mb = Idle /\ wd = Idle /\ fee = Idle
    /\ events = <<>>
    /\ result = Null
    /\ calls = [i \in Invocations |-> Idle]
    /\ \E decimals \in OnChainDecimals, allowance \in AllowanceValues :
          world = [decimals |-> decimals, allowance |-> allowance]

NextOverlap ==
    \/ \E i \in Invocations : CallDepositAt(i)
    \/ \E i \in Invocations : deposit_decimals_at(i)
    \/ \E i \in Invocations : deposit_allowance_at(i)
    \/ \E i \in Invocations : deposit_approve_at(i)
    \/ \E i \in Invocations : deposit_approveWait_at(i)
    \/ \E i \in Invocations : deposit_depositTx_at(i)
    \/ \E i \in Invocations : deposit_depositWait_at(i)

SpecOverlap == InitOverlap /\ [][NextOverlap]_vars

----------------------------------------------------------------------------
(* Two withdraw invocations that overlap.  `world` is the wall clock both   *)
(* read with Date.now().                                                    *)

\* what the fee quote answers to overlapping withdrawals
OverlapFeeOutcomes ==
    {[kind |-> "ok", data |-> [gasCost |-> Str(<<"0", ".", "1">>), fee |-> Undefined]],
     [kind |-> "network"]}

\* a millisecond passes
Tick ==
    /\ world.now + 1 \in ClockValues
    /\ world' = [world EXCEPT !.now = @ + 1]
    /\ UNCHANGED <<calls, inst, env, top, sb, dep, mb, wd, fee, events, result>>

\* the handler of a withdraw request starts: withdraw up to its call of
\* getWithdrawFee
CallWithdrawAt(i) ==
    /\ calls[i].pc = "idle"
    /\ \E amount \in OverlapAmounts, toAddress \in {<<>>, <<"0", "x", "A", "1">>} :
        LET frame == withdraw(env, OverlapNetwork, OverlapToken, amount, toAddress, "")
        IN  /\ calls' = [calls EXCEPT ![i] = frame]
            /\ events' = AfterAt(i, "withdraw", frame,
                                 <<Event("call", "withdraw", TRUE,
                                         [id |-> i, network |-> OverlapNetwork,
                                          token |-> OverlapToken, amount |-> amount,
                                          toAddress |-> toAddress])>>)
    /\ UNCHANGED <<world, inst, env, top, sb, dep, mb, wd, fee, result>>

\* const feeResponse = await this.getWithdrawFee(token, network), the checks
\* of the quote and const timestamp = Date.now(): the clock is read when
\* the quote has arrived
withdraw_fee_at(i) ==
    /\ calls[i].pc = "fee"
    /\ \E outcome \in OverlapFeeOutcomes :
        LET f    == calls[i]
            r    == makeApiRequest(inst, "/api/v1/aster/withdraw/estimateFee", "GET",
                                   [chainId |-> f.chainId, asset |-> f.tokenUpper],
                                   TRUE, outcome, world.now)
            normalized == getAddress(f.destination)
            sent == <<[r.sent[1] EXCEPT !.detail = [id |-> i] @@ @]>>
            next == IF ~r.response.success
                    THEN Returned([success |-> FALSE,
                                   error |-> Text("Failed to get withdrawal fee: "
                                                  \o Interpolate(r.response.error))])
                    ELSE IF ~normalized.ok
                    THEN Returned(handleError("Invalid destination address"))
                    ELSE [f EXCEPT !.pc = "sign", !.fee = r.response.data.gasCost,
                                   !.feeStr = String(r.response.data.gasCost),
                                   !.normalizedDestination = normalized.address,
                                   !.timestamp = world.now]
        IN  /\ calls' = [calls EXCEPT ![i] = next]
            /\ events' = AfterAt(i, "withdraw", next, sent)
    /\ UNCHANGED <<world, inst, env, top, sb, dep, mb, wd, fee, result>>

\* await wallet.signTypedData(domain, types, value) with nonce = timestamp * 1000
withdraw_sign_at(i) ==
    /\ calls[i].pc = "sign"
    /\ LET f == calls[i]
       IN  /\ calls' = [calls EXCEPT ![i] = [f EXCEPT !.pc = "submit"]]
           /\ events' = events \o
                  <<Event("sign", "signTypedData", TRUE,
                          [id |-> i, chainId |-> f.chainId,
                           destination |-> f.normalizedDestination,
                           token |-> f.tokenUpper, amount |-> f.amount, fee |-> f.feeStr,
                           nonce |-> f.timestamp * 1000, signer |-> f.signingKey])>>
    /\ UNCHANGED <<world, inst, env, top, sb, dep, mb, wd, fee, result>>

\* await this._asterApiRequest('/api/v1/aster/user-withdraw', 'POST', withdrawParams, true)
withdraw_submit_at(i) ==
    /\ calls[i].pc = "submit"
    /\ \E outcome \in HttpOutcomes(WithdrawBodies) :
        LET f    == calls[i]
            r    == makeApiRequest(inst, "/api/v1/aster/user-withdraw", "POST",
                                   [chainId |-> f.chainId, asset |-> f.tokenUpper,
                                    amount |-> f.amount, fee |-> f.feeStr,
                                    receiver |-> f.receiver,
                                    nonce |-> String(Num(f.timestamp * 1000)),
                                    timestamp |-> Num(f.timestamp)],
                                   TRUE, outcome, world.now)
            sent == <<[r.sent[1] EXCEPT !.detail = [id |-> i] @@ @]>>
            next == IF ~r.response.success
                    THEN Returned([success |-> FALSE, error |-> r.response.error])
                    ELSE IF r.response.data = JsNull
                    THEN Returned(handleError("Cannot read properties of null"))
                    ELSE Returned([success |-> TRUE,
                                   withdrawal |-> [id |-> r.response.data.id,
                                                   network |-> f.network,
                                                   chainId |-> f.chainId,
                                                   token |-> f.tokenUpper,
                                                   amount |-> f.amount,
                                                   fee |-> f.fee,
                                                   from |-> f.receiver,
                                                   to |-> f.destination,
                                                   status |-> IF Truthy(r.response.data.status)
                                                              THEN r.response.data.status
                                                              ELSE Str(<<"p", "e", "n", "d", "i", "n", "g">>)]])
        IN  /\ calls' = [calls EXCEPT ![i] = next]
            /\ events' = AfterAt(i, "withdraw", next, sent)
    /\ UNCHANGED <<world, inst, env, top, sb, dep, mb, wd, fee, result>>

InitOverlapWithdraw ==
    /\ inst = ToolsAPI("apikey", "apisecret")
    /\ env = WalletEnv("0xenvkey", "solenvkey", "", "https://rpc")
    /\ top = "none"
    /\ sb = Idle /\ dep = Idle /\ mb = Idle /\ wd = Idle /\ fee = Idle
    /\ events = <<>>
    /\ result = Null
    /\ calls = [i \in Invocations |-> Idle]
    /\ world = [now |-> CHOOSE t \in ClockValues : \A u \in ClockValues : t <= u]

NextOverlapWithdraw ==
    \/ Tick
    \/ \E i \in Invocations : CallWithdrawAt(i)
    \/ \E i \in Invocations : withdraw_fee_at(i)
    \/ \E i \in Invocations : withdraw_sign_at(i)
    \/ \E i \in Invocations : withdraw_submit_at(i)

SpecOverlapWithdraw == InitOverlapWithdraw /\ [][NextOverlapWithdraw]_vars

----------------------------------------------------------------------------
(* Properties                                                              *)

Idx == DOMAIN events

IsCall(i, op)   == events[i].io = "call" /\ events[i].call = op
IsReturn(i, op) == events[i].io = "return" /\ events[i].call = op

\* the three steps of the saga, as the operations they call
SagaSteps == {"deposit", "marketBuy", "withdraw"}

\* network I/O: an RPC read, a transaction submission, a confirmation wait,
\* an HTTP request
IsIO(i) == events[i].io \in {"read", "write", "wait", "http"}

\* an external write: a transaction submission or a POST to the exchange
IsWrite(i) ==
    \/ events[i].io = "write"
    \/ events[i].io = "http" /\ events[i].detail.method = "POST"

Count(S) == Cardinality(S)

\* C1: in swapAndBridge the buy is started only after the deposit returned
\* success, the withdraw only after the buy returned success, each step is
\* started at most once, and after a step returned failure no step is started.
C1_StepsInOrder ==
    top = "swapAndBridge" =>
        /\ \A i \in Idx : IsCall(i, "marketBuy") =>
               \E j \in 1..(i - 1) : IsReturn(j, "deposit") /\ events[j].ok
        /\ \A i \in Idx : IsCall(i, "withdraw") =>
               \E j \in 1..(i - 1) : IsReturn(j, "marketBuy") /\ events[j].ok
        /\ \A i \in Idx : (\E s \in SagaSteps : IsReturn(i, s)) /\ ~events[i].ok =>
               \A k \in Idx : k > i => ~(\E s \in SagaSteps : IsCall(k, s))
        /\ \A s \in SagaSteps : Count({i \in Idx : IsCall(i, s)}) <= 1

\* a saga that ran all three steps and returned success
C1_Witness ==
    /\ top = "swapAndBridge"
    /\ result # Null
    /\ result.success
    /\ \E i \in Idx : IsReturn(i, "withdraw") /\ events[i].ok

\* the names of the steps that completed, in the order they completed
RECURSIVE CompletedSteps(_)
CompletedSteps(n) ==
    IF n = 0 THEN <<>>
    ELSE CompletedSteps(n - 1) \o
         (IF events[n].io = "return" /\ events[n].call \in SagaSteps /\ events[n].ok
          THEN <<IF events[n].call = "marketBuy" THEN "swap" ELSE events[n].call>>
          ELSE <<>>)

\* C2: every failed swapAndBridge result names the failed step in failedAt
\* and carries the trace of exactly the steps completed before it, in order.
C2_FailedResultCarriesTrace ==
    (top = "swapAndBridge" /\ result # Null /\ ~result.success) =>
        /\ "failedAt" \in DOMAIN result
        /\ result.failedAt \in {"deposit", "swap", "withdraw"}
        /\ "partialResults" \in DOMAIN result
        /\ [i \in 1..Len(result.partialResults.steps) |->
               result.partialResults.steps[i].action] = CompletedSteps(Len(events))

\* C3: swapAndBridge issues at most one deposit, one market buy and one
\* withdrawal, every order is a BUY, and after a step failed no write of
\* any kind (no sell, no withdrawal back) is issued.
C3_NoCompensation ==
    top = "swapAndBridge" =>
        /\ Count({i \in Idx : events[i].io = "write" /\ events[i].call # "approve"}) <= 1
        /\ Count({i \in Idx : events[i].io = "http"
                              /\ events[i].call = "/api/v1/order"}) <= 1
        /\ Count({i \in Idx : events[i].io = "http"
                              /\ events[i].call = "/api/v1/aster/user-withdraw"}) <= 1
        /\ \A i \in Idx : events[i].io = "http" /\ events[i].call = "/api/v1/order" =>
               events[i].detail.params.side = "BUY"
        /\ \A i \in Idx : (\E s \in SagaSteps : IsReturn(i, s)) /\ ~events[i].ok =>
               \A k \in Idx : k > i => ~IsWrite(k)

\* a saga that failed after its deposit had been committed
C3_Witness ==
    /\ top = "swapAndBridge"
    /\ result # Null
    /\ ~result.success
    /\ \E i \in Idx : IsReturn(i, "deposit") /\ events[i].ok
    /\ \E i \in Idx : events[i].io = "write" /\ events[i].call = "deposit" /\ events[i].ok

\* C4: within one invocation each external write (approve, deposit
\* transaction, order, withdrawal submission) is submitted at most once.
C4_WritesAtMostOnce ==
    \A i, j \in Idx :
        (IsWrite(i) /\ IsWrite(j) /\ events[i].call = events[j].call) => i = j

\* an invocation that ended after a submission or its confirmation failed
C4_Witness ==
    /\ result # Null
    /\ \E i \in Idx : events[i].io \in {"write", "wait"} /\ ~events[i].ok
    /\ \E i \in Idx : events[i].io = "wait" /\ events[i].call = "approve" /\ ~events[i].ok

IsAllowanceRead(i) ==
    events[i].io = "read" /\ events[i].call = "allowance" /\ events[i].ok

Approvals == {k \in Idx : events[k].io = "write" /\ events[k].call = "approve"}
DepositCalls == {k \in Idx : events[k].io = "write" /\ events[k].call = "deposit"}

\* C5: when the allowance read for (wallet, deposit contract) is at least
\* the required base-unit amount, no approval is submitted and exactly one
\* deposit call is, for that amount, as the next external call.
C5_SufficientAllowanceSkipsApproval ==
    \A i \in Idx :
        (IsAllowanceRead(i) /\ events[i].detail.value >= events[i].detail.required) =>
            /\ Approvals = {}
            /\ \A k \in Idx : ~(events[k].io = "wait" /\ events[k].call = "approve")
            /\ Count(DepositCalls) = (IF dep.pc = "depositTx" THEN 0 ELSE 1)
            /\ \A k \in DepositCalls :
                   k = i + 1 /\ events[k].detail.amount = events[i].detail.required

\* a deposit that found its allowance equal to the amount and was confirmed
C5_Witness ==
    /\ top = "deposit"
    /\ result # Null
    /\ result.success
    /\ \E i \in Idx : IsAllowanceRead(i)
                      /\ events[i].detail.value = events[i].detail.required
    /\ DepositCalls # {}

\* C6: when the allowance is below the required amount, exactly one
\* approval is submitted, to the network's deposit contract and for exactly
\* the required amount; the deposit call comes only after the approval's
\* confirmation wait returned; a failed approval or wait leaves no deposit
\* call and a failed operation.
C6_InsufficientAllowanceApprovesExactly ==
    \A i \in Idx :
        (IsAllowanceRead(i) /\ events[i].detail.value < events[i].detail.required) =>
            /\ Count(Approvals) = (IF dep.pc = "approve" THEN 0 ELSE 1)
            /\ \A k \in Approvals :
                   /\ k = i + 1
                   /\ events[k].detail.amount = events[i].detail.required
                   /\ events[k].detail.spender = events[i].detail.spender
                   /\ \E c \in Idx :
                          /\ IsCall(c, "deposit")
                          /\ events[k].detail.spender =
                                 DEPOSIT_CONTRACTS(toLowerCase(events[c].detail.network)).address
            /\ \A k \in DepositCalls :
                   \E a \in Approvals, w \in Idx :
                       /\ a < w /\ w < k
                       /\ events[a].ok
                       /\ events[w].io = "wait" /\ events[w].call = "approve" /\ events[w].ok
            /\ (\E k \in Idx : events[k].call = "approve" /\ ~events[k].ok) =>
                   /\ DepositCalls = {}
                   /\ \E r \in Idx : IsReturn(r, "deposit") /\ ~events[r].ok

\* a deposit that approved the missing allowance, waited and was submitted
C6_Witness ==
    /\ \E i \in Idx : IsAllowanceRead(i)
                      /\ events[i].detail.value < events[i].detail.required
                      /\ events[i].detail.value > 0
    /\ \E k \in Approvals : events[k].ok
    /\ DepositCalls # {}

\* the fee a fee-estimate body quotes: gasCost || fee
QuotedFee(data) == IF Truthy(data.gasCost) THEN data.gasCost ELSE data.fee

IsFeeQuote(i) ==
    /\ events[i].io = "http"
    /\ events[i].call = "/api/v1/aster/withdraw/estimateFee"
    /\ events[i].ok
    /\ events[i].detail.answer.data # JsNull
    /\ QuotedFee(events[i].detail.answer.data) \notin {JsNull, Undefined}

Signatures == {k \in Idx : events[k].io = "sign"}
Submissions == {k \in Idx : events[k].io = "http"
                            /\ events[k].call = "/api/v1/aster/user-withdraw"}

\* C7: every typed-data signature of withdraw comes after a fee quote that
\* returned a fee and signs that fee; every withdrawal request comes after
\* the signature and carries the same fee; when getWithdrawFee returned
\* failure there is no signature, no withdrawal request, and withdraw fails.
C7_FeeQuoteBeforeSigning ==
    /\ \A s \in Signatures :
           \E q \in 1..(s - 1), r \in 1..(s - 1) :
               /\ q < r
               /\ IsFeeQuote(q)
               /\ IsReturn(r, "getWithdrawFee") /\ events[r].ok
               /\ events[s].detail.fee = String(QuotedFee(events[q].detail.answer.data))
    /\ \A p \in Submissions :
           \E s \in Signatures :
               s < p /\ events[p].detail.params.fee = events[s].detail.fee
    /\ (\E r \in Idx : IsReturn(r, "getWithdrawFee") /\ ~events[r].ok) =>
           /\ Signatures = {}
           /\ Submissions = {}
           /\ \A w \in Idx : IsReturn(w, "withdraw") => ~events[w].ok

\* a withdraw whose fee request was answered without a fee and that
\* returned failure
C7_Witness ==
    /\ top = "withdraw"
    /\ result # Null
    /\ ~result.success
    /\ \E q \in Idx : /\ events[q].io = "http"
                      /\ events[q].ok
                      /\ events[q].detail.answer.data # JsNull
                      /\ events[q].detail.answer.data.gasCost = Num(0)
                      /\ events[q].detail.answer.data.fee = Undefined
    /\ Signatures = {}

\* the arguments the public operation was invoked with
TopArgs == events[1].detail

\* a token or trading symbol made of letters and digits only
WellFormedSymbol(s) ==
    Len(s) > 0 /\ \A k \in DOMAIN s : s[k] \in Range(LowerLetters \o UpperLetters \o DigitChars)

SupportedNetwork(op, network) ==
    toLowerCase(network) \in (IF op = "deposit" THEN AllNetworks ELSE EvmNetworks)

\* C8: deposit, withdraw, getWithdrawFee and marketBuy, given an amount that
\* is not a positive number, an unsupported network or a malformed symbol,
\* return failure without any RPC or HTTP call.
C8_InvalidInputsRejectedBeforeIO ==
    (top \in {"deposit", "withdraw", "getWithdrawFee", "marketBuy"}
     /\ (\/ "amount" \in DOMAIN TopArgs /\ ~IsFinitePositiveDecimal(TopArgs.amount)
         \/ "network" \in DOMAIN TopArgs /\ ~SupportedNetwork(top, TopArgs.network)
         \/ "token" \in DOMAIN TopArgs /\ ~WellFormedSymbol(TopArgs.token)
         \/ "symbol" \in DOMAIN TopArgs /\ ~validateTradingSymbol(TopArgs.symbol))) =>
        /\ \A i \in Idx : ~IsIO(i)
        /\ result # Null => ~result.success

RejectedAmounts == {<<"0">>, <<"-", "5">>, <<"a", "b", "c">>}

\* C9: validateAmount rejects "0", "-5" and "abc" and accepts "1.5" and
\* "100"; an operation invoked with an amount validateAmount rejects issues
\* no network call and returns failure.
C9_AmountValidation ==
    /\ \A a \in RejectedAmounts : ~validateAmount(a)
    /\ validateAmount(<<"1", ".", "5">>)
    /\ validateAmount(<<"1", "0", "0">>)
    /\ (top # "none" /\ "amount" \in DOMAIN TopArgs /\ ~validateAmount(TopArgs.amount)) =>
           /\ \A i \in Idx : ~IsIO(i)
           /\ result # Null => ~result.success

\* a withdraw on a supported network with amount "-5" that returned failure
C9_Witness ==
    /\ top = "withdraw"
    /\ TopArgs.amount = <<"-", "5">>
    /\ TopArgs.network = <<"e", "t", "h", "e", "r", "e", "u", "m">>
    /\ result # Null
    /\ ~result.success
    /\ \A i \in Idx : ~IsIO(i)

\* the amount text a transaction, a signature or an exchange request carries
CarriesAmount(i) ==
    \/ events[i].io = "write" /\ events[i].call \in {"depositNative", "sendAndConfirmTransaction"}
    \/ events[i].io = "sign"
    \/ events[i].io = "http" /\ events[i].detail.method = "POST"

AmountOf(i) ==
    CASE events[i].call = "depositNative" -> events[i].detail.value
      [] events[i].call = "/api/v1/order" -> events[i].detail.params.quoteOrderQty
      [] events[i].call = "/api/v1/aster/user-withdraw" -> events[i].detail.params.amount
      [] OTHER -> events[i].detail.amount

\* C10: every amount that reaches a transaction, a signature or an exchange
\* request in deposit, withdraw or marketBuy is a finite decimal greater
\* than 0.
C10_OnlyFiniteDecimalsReachIO ==
    top \in {"deposit", "withdraw", "marketBuy"} =>
        \A i \in Idx : CarriesAmount(i) => IsFinitePositiveDecimal(AmountOf(i))

\* the stablecoin-class tokens of the withdrawal minimum
StablecoinClass == {<<"U", "S", "D", "T">>, <<"U", "S", "D", "C">>, <<"B", "U", "S", "D">>,
                    <<"D", "A", "I">>, <<"T", "U", "S", "D">>}

MinimumAmountError == Text("Minimum withdrawal amount is 1.0")

\* C11: on a supported network, withdraw of a stablecoin-class token (in
\* any letter case) with an amount below 1.0 returns failure at once, with
\* no credential resolution, no signature and no request, and the failure
\* of a positive amount below 1.0 is the minimum-amount error whatever
\* credentials are configured; for any other token the minimum-amount error
\* is never returned, and "0.5" goes on to the fee quote when a key resolves.
C11_StablecoinFloor ==
    (top = "withdraw" /\ SupportedNetwork("withdraw", TopArgs.network)) =>
        LET stable == toUpperCase(TopArgs.token) \in StablecoinClass
            amount == TopArgs.amount
        IN  /\ (stable /\ amount \in {<<"0">>, <<"-", "5">>, <<"0", ".", "5">>}) =>
                   /\ Len(events) = 2
                   /\ IsReturn(2, "withdraw") /\ ~events[2].ok
                   /\ wd.pc = "returned" /\ ~wd.ret.success
            /\ (stable /\ amount = <<"0", ".", "5">>) => wd.ret.error = MinimumAmountError
            /\ (~stable /\ wd.pc = "returned" /\ ~wd.ret.success) =>
                   wd.ret.error # MinimumAmountError
            /\ (~stable /\ amount = <<"0", ".", "5">>
                /\ getNetworkPrivateKey(env, toLowerCase(TopArgs.network), TopArgs.privateKey).ok) =>
                   \E i \in Idx : IsCall(i, "getWithdrawFee")

\* "0.5" of usdt is refused with the minimum-amount error although no
\* wallet credential is configured
C11_Witness ==
    /\ top = "withdraw"
    /\ TopArgs.network = <<"e", "t", "h", "e", "r", "e", "u", "m">>
    /\ TopArgs.token = <<"u", "s", "d", "t">>
    /\ TopArgs.amount = <<"0", ".", "5">>
    /\ TopArgs.privateKey = ""
    /\ ~getNetworkPrivateKey(env, toLowerCase(TopArgs.network), "").ok
    /\ result = [success |-> FALSE, error |-> MinimumAmountError]

Derivations == {i \in Idx : events[i].io = "derive"}

\* C12: getNetworkPrivateKey returns the explicit key whenever one is given;
\* otherwise the network's configured key whenever it is non-empty;
\* otherwise the key derived from the configured mnemonic, deriving exactly
\* once; with an explicit or configured key present nothing is derived, and
\* the key returned is always exactly one tier's key.
C12_KeyPriority ==
    top = "getNetworkPrivateKey" =>
        LET explicit == TopArgs.userPrivateKey
            creds    == env[toUpperCase(TopArgs.network)]
        IN  /\ explicit # "" =>
                   result.ok /\ result.key = explicit /\ Derivations = {}
            /\ (explicit = "" /\ creds.privateKey # "") =>
                   result.ok /\ result.key = creds.privateKey /\ Derivations = {}
            /\ (explicit = "" /\ creds.privateKey = "" /\ creds.mnemonic # "") =>
                   /\ Count(Derivations) = 1
                   /\ \A d \in Derivations : events[d].detail.phrase = creds.mnemonic
                   /\ creds.mnemonic \in ValidMnemonics =>
                          result.ok /\ result.key = KeyOfMnemonic(creds.mnemonic)

\* all three tiers are present and the explicit key is returned
C12_Witness ==
    /\ top = "getNetworkPrivateKey"
    /\ TopArgs.userPrivateKey = "0xuserkey"
    /\ env[toUpperCase(TopArgs.network)].privateKey # ""
    /\ env[toUpperCase(TopArgs.network)].mnemonic = "good phrase"
    /\ result.key = "0xuserkey"

NoCredentialsError == "No wallet credentials available"
KeyDerivationError == "Failed to derive private key from mnemonic"

\* C13: key resolution fails with the no-credentials error exactly when no
\* explicit key, no configured key and no mnemonic are present; with only a
\* malformed mnemonic it fails with the derivation error, which differs
\* from the no-credentials error.
C13_KeyErrors ==
    top = "getNetworkPrivateKey" =>
        LET explicit == TopArgs.userPrivateKey
            creds    == env[toUpperCase(TopArgs.network)]
            absent   == explicit = "" /\ creds.privateKey = "" /\ creds.mnemonic = ""
        IN  /\ (~result.ok /\ result.error = NoCredentialsError) <=> absent
            /\ (explicit = "" /\ creds.privateKey = "" /\ creds.mnemonic # ""
                /\ creds.mnemonic \notin ValidMnemonics) =>
                   ~result.ok /\ result.error = KeyDerivationError
            /\ NoCredentialsError # KeyDerivationError

\* only a malformed mnemonic is configured and the derivation error is returned
C13_Witness ==
    /\ top = "getNetworkPrivateKey"
    /\ TopArgs.userPrivateKey = ""
    /\ env[toUpperCase(TopArgs.network)] =
           [privateKey |-> "", mnemonic |-> "bad phrase", rpcUrl |-> "https://rpc"]
    /\ result.error = KeyDerivationError
    /\ Derivations # {}

\* the key a call must sign with under the configuration in force: the
\* explicit key, else the network's configured key, else the key of the
\* configured mnemonic
KeyInForce(args) ==
    LET creds == env[toUpperCase(args.network)]
    IN  IF args.privateKey # "" THEN args.privateKey
        ELSE IF creds.privateKey # "" THEN creds.privateKey
        ELSE KeyOfMnemonic(creds.mnemonic)

HttpCalls == {i \in Idx : events[i].io = "http"}

\* the request client was called on its own and has returned
ClientReturned == top = "makeApiRequest" /\ result # Null

\* C15: a request marked signed whose API key or API secret is absent fails
\* at once with the missing-credentials error, and no HTTP call is issued
\* for it.
C15_MissingCredentialsFailBeforeHttp ==
    (ClientReturned /\ TopArgs.signed
     /\ (inst.asterApiKey = "" \/ inst.asterApiSecret = "")) =>
        /\ ~result.success
        /\ result.error.message = "API credentials not configured"
        /\ HttpCalls = {}

\* a signed request with a key but without a secret was refused
C15_Witness ==
    /\ ClientReturned
    /\ TopArgs.signed
    /\ inst.asterApiKey # ""
    /\ inst.asterApiSecret = ""
    /\ ~result.success
    /\ HttpCalls = {}

\* C16: every result of the request client is exactly one of three disjoint
\* variants: success wrapping the body, API error with the provider's code
\* and message (the transport status when the provider gives no code) and
\* the HTTP status, or network error; the network-error variant is produced
\* only when the transport failed without a response, never by a
\* caller-side failure such as missing credentials.
C16_ThreeDisjointVariants ==
    ClientReturned =>
        LET answers  == {events[i].detail.answer : i \in HttpCalls}
            success  == /\ result.success
                        /\ \E a \in answers : a.kind = "ok" /\ result.data = a.data
            apiError == /\ ~result.success
                        /\ DOMAIN result.error = {"code", "message", "httpStatus"}
                        /\ \E a \in answers :
                              /\ a.kind = "apiError"
                              /\ result.error.httpStatus = a.status
                              /\ result.error.code = IF a.code # 0 THEN a.code ELSE a.status
                              /\ a.msg # "" => result.error.message = a.msg
            network  == /\ ~result.success
                        /\ DOMAIN result.error = {"message", "type"}
                        /\ result.error.type = "NetworkError"
                        /\ \E a \in answers : a.kind = "network"
        IN  /\ success \/ apiError \/ network
            /\ ~(success /\ apiError) /\ ~(success /\ network) /\ ~(apiError /\ network)

\* C17: for a signed request a timestamp supplied by the caller, whatever
\* its value, is the one that is signed and sent; a timestamp is injected
\* only when the caller supplied none, and recvWindow only when it is
\* absent; an unsigned request has neither field added.
C17_CallerTimestampKept ==
    ClientReturned =>
        \A i \in HttpCalls :
            LET given  == TopArgs.params
                config == events[i].detail.config
                sent   == config.requestParams
            IN  IF TopArgs.signed THEN
                    /\ config.signature.hmac = buildQueryString(sent)
                    /\ Get(sent, TimestampKey) =
                           IF Has(given, TimestampKey) THEN Get(given, TimestampKey)
                           ELSE Num(events[i].detail.now)
                    /\ Get(sent, RecvWindowKey) =
                           IF Has(given, RecvWindowKey) THEN Get(given, RecvWindowKey)
                           ELSE Num(inst.recvWindow)
                ELSE sent = given

\* C18: for GET and DELETE the query string and the signature go into the
\* URL and no request body is set; for POST and PUT they go into the
\* request body and not into the URL; the Content-Type header is set
\* exactly for POST and PUT.
C18_QueryPlacementByMethod ==
    ClientReturned =>
        \A i \in HttpCalls :
            LET config == events[i].detail.config
                full   == [set |-> TRUE, text |-> config.queryString,
                           signature |-> config.signature]
                empty  == config.queryString = <<>> /\ ~TopArgs.signed
            IN  /\ config.method \in {"GET", "DELETE"} =>
                       /\ config.data = Unset
                       /\ config.query = IF empty THEN Unset ELSE full
                /\ config.method \in {"POST", "PUT"} =>
                       /\ config.data = full
                       /\ config.query = Unset
                /\ config.headers.ContentType # "" <=> config.method \in {"POST", "PUT"}
                /\ TopArgs.signed <=> config.signature # NoSignature

\* a signed DELETE carried its query and signature in the URL, and a
\* signed PUT carried them in the body
C18_Witness ==
    /\ ClientReturned
    /\ TopArgs.signed
    /\ \E i \in HttpCalls :
          LET config == events[i].detail.config
          IN  /\ config.queryString # <<>>
              /\ \/ config.method = "DELETE" /\ config.query # Unset /\ config.data = Unset
                 \/ config.method = "PUT" /\ config.data # Unset /\ config.query = Unset
                    /\ config.headers.ContentType # ""

\* the parameter objects with the same key/value pairs as obj, in every
\* insertion order
Reorderings(obj) ==
    {[i \in DOMAIN obj |-> obj[f[i]]] : f \in Permutations(DOMAIN obj)}

\* C19: the canonical query string, and with it the HMAC signature, depends
\* only on the set of key/value pairs, not on the order in which the keys
\* were inserted: every parameter object with the same pairs as the one
\* sent gives the same query string and the same signature.
C19_QueryStringIgnoresInsertionOrder ==
    ClientReturned =>
        \A i \in HttpCalls :
            LET config == events[i].detail.config
            IN  \A other \in Reorderings(config.requestParams) :
                    /\ buildQueryString(other) = config.queryString
                    /\ TopArgs.signed =>
                           generateHmacSignature(buildQueryString(other), inst.asterApiSecret)
                               = config.signature

\* a signed request whose parameters were inserted in an order that is not
\* the sorted one was sent
C19_Witness ==
    /\ ClientReturned
    /\ TopArgs.signed
    /\ \E i \in HttpCalls :
          LET sent == events[i].detail.config.requestParams
          IN  /\ Len(sent) > 3
              /\ ObjectKeys(sent) # sort(ObjectKeys(sent))
              /\ events[i].detail.config.signature.hmac = events[i].detail.config.queryString

C21_SignedNonceExact ==
    top = "withdrawNonce" =>
        /\ result.nonce = Times1000(result.timestamp)
        /\ result.signed = Times1000(result.timestamp)

WithdrawCalls == {c \in Idx : IsCall(c, "withdraw")}

\* the toAddress of a withdraw call is given and is no address
InvalidDestination(c) ==
    /\ events[c].detail.toAddress # <<>>
    /\ toLowerCase(events[c].detail.toAddress) \notin AddressTexts

\* C22: the typed-data signer lower-cases and re-checksums the destination
\* before signing, and an invalid destination fails with the
\* invalid-address error before any signature is attempted; a withdraw
\* with an invalid toAddress never signs and never submits a withdrawal
\* request.
C22_DestinationNormalizedOrRejected ==
    /\ \A s \in Signatures : \E c \in WithdrawCalls :
          LET given  == events[c].detail.toAddress
              target == IF given # <<>> THEN given
                        ELSE WalletAddress(events[s].detail.signer)
          IN  /\ c < s
              /\ toLowerCase(target) \in AddressTexts
              /\ events[s].detail.destination = Checksummed(toLowerCase(target))
    /\ \A c \in WithdrawCalls : InvalidDestination(c) =>
          /\ Signatures = {}
          /\ Submissions = {}
          /\ \A r \in Idx : IsReturn(r, "withdraw") => ~events[r].ok
          /\ (top = "withdraw" /\ result # Null
              /\ \E f \in Idx : IsReturn(f, "getWithdrawFee") /\ events[f].ok) =>
                 result.error = Text("Invalid destination address")

\* a withdraw whose fee was quoted failed on its invalid toAddress
C22_Witness ==
    /\ top = "withdraw"
    /\ result # Null
    /\ InvalidDestination(1)
    /\ \E f \in Idx : IsReturn(f, "getWithdrawFee") /\ events[f].ok
    /\ result.error = Text("Invalid destination address")
    /\ Signatures = {}

\* the texts the operations build around a message m
TextsAround(m) ==
    {prefix \o m : prefix \in {"", "Deposit failed: ", "Swap failed: ", "Withdrawal failed: ",
                               "Failed to get withdrawal fee: ",
                               "Withdrawal failed: Failed to get withdrawal fee: "}}

\* the error of a failed result carries the message m: as its text, or as
\* the message of the error value passed through
CarriesMessage(error, m) ==
    IF "text" \in DOMAIN error THEN error.text \in TextsAround(m)
    ELSE "message" \in DOMAIN error /\ error.message = m

\* C23: a user-visible failure carries the message of the underlying error:
\* when a saga step or the fee quote fails with an API error (code, message,
\* status), the error returned by swapAndBridge or withdraw contains the
\* provider's message.
C23_FailureCarriesProviderMessage ==
    (top \in {"swapAndBridge", "withdraw"} /\ result # Null) =>
        \A i \in HttpCalls : events[i].detail.answer.kind = "apiError" =>
            /\ ~result.success
            /\ CarriesMessage(result.error, events[i].detail.answer.msg)

\* C24: the 16-byte Solana deposit payload round-trips: for the fixed broker
\* id and every lamport amount in 0..2^64-1 the payload has 16 bytes, byte 0
\* is the opcode 0x6c, the little-endian word of bytes 0-7 without its
\* opcode byte is the broker id, and the little-endian word of bytes 8-15
\* is the amount; the broker id packed over the opcode fits 64 bits.
C24_PayloadRoundTrip ==
    (top = "buildDepositInstructionData" /\ Len(TopArgs.amountLamports) <= 64) =>
        /\ result.ok
        /\ Len(result.data) = 16
        /\ result.data[1] = 108
        /\ result.decoded.ok
        /\ result.decoded.discriminator = 108
        /\ result.decoded.broker = BROKER_ID
        /\ result.decoded.amountLamports = TopArgs.amountLamports
        /\ Len(ShiftLeft(BROKER_ID, 8)) <= 64
        /\ \A i \in 1..16 : result.data[i] \in 0..255

\* the payload of 2^64 - 1 lamports was built: bytes 8-15 are all 0xff
C24_Witness ==
    /\ top = "buildDepositInstructionData"
    /\ Len(TopArgs.amountLamports) = 64
    /\ result.ok
    /\ \A i \in 9..16 : result.data[i] = 255
    /\ result.data[2] # 0

\* C25: token resolution is case-insensitive in the symbol and in the
\* network name: resolving the lower-cased symbol and resolving the
\* upper-cased symbol give the same result (the same descriptor, or both
\* not found), which is also the result for the spelling given, and the
\* spelling of the network name does not matter either.
C25_ResolutionCaseInsensitive ==
    top = "getTokenConfig" =>
        LET symbol  == TopArgs.symbol
            network == TopArgs.network
        IN  /\ getTokenConfig(toLowerCase(symbol), network)
                   = getTokenConfig(toUpperCase(symbol), network)
            /\ result = getTokenConfig(toUpperCase(symbol), network)
            /\ result = getTokenConfig(symbol, toUpperCase(network))
            /\ result = getTokenConfig(symbol, toLowerCase(network))

\* a symbol and a network name in mixed case resolved to a descriptor
C25_Witness ==
    /\ top = "getTokenConfig"
    /\ TopArgs.symbol = <<"U", "s", "d", "T">>
    /\ TopArgs.network = <<"E", "t", "h", "e", "r", "e", "u", "m">>
    /\ result # Null
    /\ result.symbol = <<"U", "S", "D", "T">>
    /\ result.network = <<"e", "t", "h", "e", "r", "e", "u", "m">>

BalanceReads == {i \in Idx : events[i].io = "read"}

\* the balance query got as far as resolving its token reference
ReachedTokenResolution ==
    /\ validateNetwork(TopArgs.network, AllNetworks)
    /\ balanceWallet(env, toLowerCase(TopArgs.network), TopArgs.address).ok
    /\ getNetworkRpcUrl(env, toLowerCase(TopArgs.network)).ok

\* C26: a balance query whose token reference is a symbol that the registry
\* does not resolve on that network fails with the unsupported-token error
\* and issues no balance read; it never reports a balance, zero or other,
\* for an unknown symbol.
C26_UnknownSymbolIsAnError ==
    (top = "getNetworkBalance"
     /\ likelySymbol(TopArgs.tokenAddress)
     /\ (validateNetwork(TopArgs.network, AllNetworks) =>
             getTokenConfig(TopArgs.tokenAddress, TopArgs.network) = Null)) =>
        /\ ~result.success
        /\ BalanceReads = {}
        /\ ReachedTokenResolution =>
               result.error = Text("Token is not supported on network")

\* an unknown symbol was asked for on a configured network and refused
C26_Witness ==
    /\ top = "getNetworkBalance"
    /\ TopArgs.tokenAddress = <<"X", "Y", "Z">>
    /\ TopArgs.network = <<"s", "o", "l", "a", "n", "a">>
    /\ ReachedTokenResolution
    /\ ~result.success
    /\ result.error = Text("Token is not supported on network")

\* the address of the wallet the environment configures for a network
ConfiguredWallet(network) ==
    LET configured == getNetworkPrivateKey(env, toLowerCase(network), "")
    IN  [ok |-> configured.ok /\ configured.key \in EvmKeys,
         address |-> WalletAddress(configured.key)]

\* C27: when withdraw is called without a destination address, the
\* destination bound into the withdrawal signature and reported in the
\* result is the address of the wallet configured in the environment for
\* the network named.
C27_DefaultDestinationIsConfiguredWallet ==
    (top = "withdraw" /\ TopArgs.toAddress = <<>>) =>
        /\ \A s \in Signatures :
              /\ ConfiguredWallet(TopArgs.network).ok
              /\ events[s].detail.destination =
                     getAddress(ConfiguredWallet(TopArgs.network).address).address
        /\ (result # Null /\ result.success) =>
              result.withdrawal.to = ConfiguredWallet(TopArgs.network).address

\* the networks the swap_and_bridge tool declares for its source and
\* destination
DeclaredBridgeNetworks ==
    {<<"e", "t", "h", "e", "r", "e", "u", "m">>,
     <<"a", "r", "b", "i", "t", "r", "u", "m">>, <<"b", "n", "b">>}

\* the transactions a deposit submits, on an EVM network or on Solana
DepositSubmissions ==
    {k \in Idx : /\ events[k].io = "write"
                 /\ events[k].call \in {"deposit", "approve", "sendAndConfirmTransaction"}}

\* C28: swapAndBridge accepts as source network only ethereum, arbitrum or
\* bnb: a call whose fromNetwork is solana or any other value is rejected
\* without a deposit being submitted.
C28_BridgeSourceRestricted ==
    (top = "swapAndBridge" /\ TopArgs.network \notin DeclaredBridgeNetworks) =>
        /\ DepositSubmissions = {}
        /\ result # Null => ~result.success

\* the arguments of the deposit made in this invocation
DepositArgs ==
    events[CHOOSE k \in Idx : events[k].io = "call" /\ events[k].call = "deposit"].detail

\* the decimals the token contract answered before step k
DecimalsRead(k) ==
    {events[j].detail.value :
        j \in {i \in 1..(k - 1) : /\ events[i].io = "read"
                                  /\ events[i].call = "decimals" /\ events[i].ok}}

\* the base-unit amounts of an ERC20 deposit: the amount the allowance is
\* compared with, the amount approved and the amount deposited
BaseUnitUses ==
    {k \in Idx : \/ events[k].io = "read" /\ events[k].call = "allowance"
                 \/ events[k].io = "write" /\ events[k].call \in {"approve", "deposit"}}

BaseUnitAmount(k) ==
    IF events[k].call = "allowance" THEN events[k].detail.required
    ELSE events[k].detail.amount

\* C29: in an ERC20 deposit the base-unit amount used for the allowance
\* check, the approval and the deposit call is the decimal amount scaled by
\* the decimals read from the token contract during that call, never by the
\* decimals of the token registry, and is the same in all three places.
C29_AmountScaledByContractDecimals ==
    \A k \in BaseUnitUses :
        /\ Cardinality(DecimalsRead(k)) = 1
        /\ \A d \in DecimalsRead(k) :
              BaseUnitAmount(k) = parseUnits(DepositArgs.amount, d)
        /\ \A j \in BaseUnitUses : BaseUnitAmount(j) = BaseUnitAmount(k)

\* a registry token whose contract answers other decimals than the registry
\* records was checked, approved and deposited in the contract's scale
C29_Witness ==
    /\ \E a, b, c \in BaseUnitUses :
          /\ events[a].call = "allowance" /\ events[b].call = "approve"
          /\ events[c].call = "deposit" /\ events[c].ok
          /\ DecimalsRead(a) = {2}
          /\ BaseUnitAmount(c) = 150
    /\ getTokenConfig(DepositArgs.token, DepositArgs.network) # Null
    /\ getTokenConfig(DepositArgs.token, DepositArgs.network).decimals = 6
    /\ DepositArgs.amount = <<"1", ".", "5">>

\* C30: no operation writes to instance or process-wide state after
\* construction: the API key, secret, base URL, receive window and debug
\* flag of the instance and the process environment are left as they are by
\* every step of every operation.  The token and contract tables are
\* constants of the model, TOKENS and DEPOSIT_CONTRACTS, as no statement of
\* the source assigns to them.
C30_NoWritesAfterConstruction ==
    [][inst' = inst /\ env' = env]_vars

\* a bridge went through all its steps, with the instance as constructed
C30_Witness ==
    /\ top = "swapAndBridge"
    /\ result # Null
    /\ result.success
    /\ \E k \in Idx : events[k].io = "sign"
    /\ inst = ToolsAPI("apikey", "apisecret")
    /\ env = WalletEnv("0xenvkey", "solenvkey", "", "https://rpc")

\* the deposit calls submitted by overlapping invocations
OverlapDepositCalls ==
    {k \in Idx : /\ events[k].io = "write" /\ events[k].call = "deposit"
                 /\ "allowance" \in DOMAIN events[k].detail}

\* C31: when deposit submits the ERC20 deposit call, the allowance of the
\* signing wallet toward the deposit contract is at least the required
\* amount, also when two deposit invocations for the same wallet and token
\* interleave.
C31_AllowanceCoversDepositCall ==
    \A k \in OverlapDepositCalls :
        events[k].detail.allowance >= events[k].detail.amount

\* the withdrawals submitted by overlapping invocations
OverlapSubmissions ==
    {k \in Idx : /\ events[k].io = "http"
                 /\ events[k].call = "/api/v1/aster/user-withdraw"}

\* C32: two withdraw invocations never sign and submit the same nonce, also
\* when they overlap in time or take their timestamps within the same
\* millisecond.
C32_NoncesDistinct ==
    \A j, k \in OverlapSubmissions :
        events[j].detail.id # events[k].detail.id =>
            events[j].detail.params.nonce # events[k].detail.params.nonce

\* the inputs of the bridge's later steps that those steps will refuse
LaterInputsInvalid ==
    \/ ~validateNetwork(TopArgs.toNetwork, DeclaredBridgeNetworks)
    \/ ~validateTradingSymbol(TopArgs.targetToken \o TopArgs.token)
    \/ ~getAddress(TopArgs.toAddress).ok

\* C33: swapAndBridge never commits a deposit when its own later inputs are
\* already invalid: if toNetwork is not one of ethereum, arbitrum, bnb, or
\* the pair targetToken+fromToken fails trading-symbol validation, or
\* toAddress is not a valid address, the call fails before the deposit
\* transaction is submitted.
C33_BridgeValidatesBeforeDeposit ==
    (top = "swapAndBridge" /\ LaterInputsInvalid) =>
        /\ DepositSubmissions = {}
        /\ result # Null => ~result.success

\* the network and the amount of the call pass input validation
InputsValidated ==
    /\ validateNetwork(TopArgs.network, IF top = "deposit" THEN AllNetworks ELSE EvmNetworks)
    /\ validateAmount(TopArgs.amount)

\* no signing key can be resolved for the call: no key is given or
\* configured, the mnemonic fails to derive one, or the key is malformed
CredentialUnresolved ==
    LET networkLower == toLowerCase(TopArgs.network)
        signingKey   == getNetworkPrivateKey(env, networkLower, TopArgs.privateKey)
    IN  \/ ~signingKey.ok
        \/ signingKey.key \notin (IF networkLower = <<"s", "o", "l", "a", "n", "a">>
                                  THEN SolanaKeys ELSE EvmKeys)

ValidationFailures ==
    {handleError("Invalid network"), handleError("amount must be a positive number")}

\* C34: in deposit and withdraw, credential resolution happens after input
\* validation and before any network call: a call whose inputs fail
\* validation ends with the validation failure whatever the credentials
\* are, a call for which no credential can be resolved ends in failure
\* without any RPC or HTTP request, and a failed request ends the call in
\* failure with no later request.
C34_CredentialBetweenValidationAndIO ==
    top \in {"deposit", "withdraw"} =>
        /\ ~InputsValidated =>
              /\ \A i \in Idx : ~IsIO(i)
              /\ result # Null => result \in ValidationFailures
        /\ (InputsValidated /\ CredentialUnresolved) =>
              /\ \A i \in Idx : ~IsIO(i) /\ events[i].io # "sign"
              /\ result # Null => ~result.success
        /\ \A k \in Idx : (IsIO(k) /\ ~events[k].ok) =>
              /\ \A j \in Idx : j > k => events[j].io = "return" /\ ~events[j].ok
              /\ result # Null => ~result.success

\* a deposit with valid inputs and no credential configured failed for the
\* missing credential without any request
C34_Witness ==
    /\ top = "deposit"
    /\ InputsValidated
    /\ CredentialUnresolved
    /\ TopArgs.privateKey = ""
    /\ result = handleError("No wallet credentials available")
    /\ \A i \in Idx : ~IsIO(i)

\* the order requests, the answered buys and the withdrawals of a bridge
OrderRequests == {k \in Idx : events[k].io = "http" /\ events[k].call = "/api/v1/order"}
WithdrawStarts == {k \in Idx : events[k].io = "call" /\ events[k].call = "withdraw"}
WithdrawRequests ==
    {k \in Idx : events[k].io = "http" /\ events[k].call = "/api/v1/aster/user-withdraw"}

\* the quantity the buy before step k reported as executed
BoughtQuantity(k) ==
    {events[j].detail.answer.data.executedQty :
        j \in {o \in OrderRequests : o < k /\ events[o].ok}}

\* C35: in swapAndBridge the market buy is placed on the pair
\* targetToken+fromToken, upper-cased, with quote quantity equal to the
\* deposited amount, and the withdraw step withdraws exactly the executed
\* quantity reported by the buy, not the input amount, of targetToken to
\* toAddress on toNetwork.
C35_BridgePassesAmountsOn ==
    top = "swapAndBridge" =>
        /\ \A k \in OrderRequests :
              /\ events[k].detail.params.symbol
                     = toUpperCase(TopArgs.targetToken \o TopArgs.token)
              /\ events[k].detail.params.quoteOrderQty = TopArgs.amount
              /\ \E d \in Idx : /\ d < k
                                /\ events[d].io = "call" /\ events[d].call = "deposit"
                                /\ events[d].detail.amount = TopArgs.amount
        /\ \A k \in WithdrawStarts :
              /\ BoughtQuantity(k) = {events[k].detail.amount}
              /\ events[k].detail.token = TopArgs.targetToken
              /\ events[k].detail.network = TopArgs.toNetwork
              /\ events[k].detail.toAddress = TopArgs.toAddress
        /\ \A k \in WithdrawRequests :
              /\ BoughtQuantity(k) = {events[k].detail.params.amount}
              /\ events[k].detail.params.asset = toUpperCase(TopArgs.targetToken)
        /\ \A s \in Signatures :
              /\ BoughtQuantity(s) = {events[s].detail.amount}
              /\ events[s].detail.destination = getAddress(TopArgs.toAddress).address

\* a bridge of 100 whose buy executed 2 withdrew 2 of the target token
C35_Witness ==
    /\ top = "swapAndBridge"
    /\ TopArgs.amount = <<"1", "0", "0">>
    /\ \E o \in OrderRequests, w \in WithdrawRequests :
          /\ o < w
          /\ events[o].detail.params.symbol = <<"A", "S", "T", "E", "R", "U", "S", "D", "T">>
          /\ events[o].detail.answer.data.executedQty = <<"2">>
          /\ events[w].detail.params.amount = <<"2">>
          /\ events[w].ok
    /\ result # Null
    /\ result.success

PublicOperations ==
    {"createEvmWallet", "createSolanaWallet", "getAccountBalance", "marketBuy",
     "getPrice", "getExchangeInfo", "getNetworkBalance", "deposit", "getWithdrawFee",
     "withdraw", "swapAndBridge"}

\* C36: every public ToolsAPI operation returns a result object with a
\* boolean success field and never propagates an exception to its caller,
\* whatever its collaborators throw or return.
C36_OperationsReturnResults ==
    /\ top \in PublicOperations \cup {"none"}
    /\ result # Null =>
          /\ "thrown" \notin DOMAIN result
          /\ "success" \in DOMAIN result
          /\ result.success \in BOOLEAN

\* an account query whose answer lacks the balances list ended in a failure
\* result made from the exception
C36_Witness ==
    /\ top = "getAccountBalance"
    /\ \E k \in Idx : /\ events[k].io = "http" /\ events[k].ok
                      /\ events[k].detail.answer.data # JsNull
                      /\ events[k].detail.answer.data.balances = Undefined
    /\ result = handleError("Cannot read properties of undefined")

\* C37: every signed request the client actually sends carries its HMAC
\* signature, in the URL or in the request body, whatever the method is,
\* also a method other than GET, DELETE, POST and PUT.
C37_SignedRequestsCarrySignature ==
    ClientReturned /\ TopArgs.signed =>
        \A i \in HttpCalls :
            LET config == events[i].detail.config
            IN  \/ config.query # Unset /\ config.query.signature = config.signature
                \/ config.data # Unset /\ config.data.signature = config.signature

\* the status values the specification gives a signed operation's result
ResultStatuses == {"submitted", "confirmed", "failed"}

ResultStatusTexts ==
    {Str(<<"s", "u", "b", "m", "i", "t", "t", "e", "d">>),
     Str(<<"c", "o", "n", "f", "i", "r", "m", "e", "d">>),
     Str(<<"f", "a", "i", "l", "e", "d">>)}

\* C38: the status of every result that deposit and withdraw return is one
\* of submitted, confirmed and failed, and a deposit reports confirmed only
\* after its wait for the confirmation has completed.  A result without a
\* status field (a failure) is left aside.
C38_StatusIsSubmittedConfirmedFailed ==
    result # Null =>
        /\ top = "deposit" /\ "deposit" \in DOMAIN result =>
               /\ result.deposit.status \in ResultStatuses
               /\ result.deposit.status = "confirmed" =>
                      \E k \in Idx :
                          /\ events[k].ok
                          /\ \/ /\ events[k].io = "wait"
                                /\ events[k].call \in {"deposit", "depositNative"}
                             \/ /\ events[k].io = "write"
                                /\ events[k].call = "sendAndConfirmTransaction"
        /\ top = "withdraw" /\ "withdrawal" \in DOMAIN result =>
               result.withdrawal.status \in ResultStatusTexts

\* C39: for every token descriptor of the registry, resolving the
\* descriptor's own symbol field on the same network returns that same
\* descriptor: whenever a lookup has returned a descriptor, looking up its
\* symbol on its network returns it again.
C39_SymbolResolvesToItsDescriptor ==
    top = "getTokenConfig" /\ result # Null =>
        getTokenConfig(result.symbol, result.network) = result

\* C40: the request client never modifies the params object of its caller:
\* when makeApiRequest has returned, the object the caller passed holds the
\* properties it held at the call, in the same order, and timestamp and
\* recvWindow have been added only to the client's own copy, the one the
\* request was built from.
C40_CallerParamsUntouched ==
    ClientReturned =>
        /\ TopArgs.paramsAfter = TopArgs.params
        /\ \A i \in HttpCalls :
               TopArgs.signed =>
                   /\ Has(events[i].detail.config.requestParams, TimestampKey)
                   /\ Has(events[i].detail.config.requestParams, RecvWindowKey)

\* a signed request was sent for a caller object that has neither a
\* timestamp nor a recvWindow, and the sent parameters have both
C40_Witness ==
    /\ ClientReturned
    /\ TopArgs.signed
    /\ TopArgs.params # <<>>
    /\ ~Has(TopArgs.params, TimestampKey)
    /\ ~Has(TopArgs.params, RecvWindowKey)
    /\ \E i \in HttpCalls :
          /\ Has(events[i].detail.config.requestParams, TimestampKey)
          /\ Has(events[i].detail.config.requestParams, RecvWindowKey)
          /\ ~Has(TopArgs.paramsAfter, TimestampKey)

====
